---- MODULE Spec2Model ----
(***************************************************************************)
(* A model of terraform-provider-helm: the conversion of an APK package    *)
(* holding a Helm chart into an OCI artifact and its push to a registry.   *)
(*                                                                         *)
(* The repository holds two generations of the pipeline, and both are      *)
(* modelled:                                                               *)
(*   - the provider generation: fetchAPKPackage, ChartBuilder,             *)
(*     image.ChartImage, oci.DefaultClient.Push, helmChartResource.Create  *)
(*     and Update;                                                         *)
(*   - the chart generation: chart.Build (BuildConfig.fetch, chartify),    *)
(*     the chart artifact, helmChartResource.do.                           *)
(* The chart.Build that preceded this one (its fetch parses the metadata,  *)
(* its chartify patches YAML through JSON) is modelled from the fetched    *)
(* package on.                                                             *)
(*                                                                         *)
(* Bytes are sequences of tokens [k, v] (v a sequence of strings), so that *)
(* serialisation, parsing, hashing and lengths are computed, not assumed.  *)
(***************************************************************************)
EXTENDS Naturals, Sequences, FiniteSets, TLC

VARIABLES
    \* ---- artifact construction (image.NewChartImage, chart.Build) ----
    apkIn,          \* the package file being converted
    artifact,       \* what the construction returned: [by, with, img, md, err], or Nil
    lookup,         \* the last LayerByDigest / LayerByDiffID call and its result
    again,          \* what a second construction from the same input returned
    digests,        \* the RawManifest() / Digest() calls made on the artifact
    \* ---- the patch engine (chart.patchedWith, the patch step of chartify) ----
    patIn,          \* the call: [filename, original, patchOps], or Nil
    patOut,         \* what it returned: [by, content, err] and msg, or Nil
    \* ---- the helm_chart resource ----
    gen,            \* which generation of the pipeline the provider runs
    client,         \* the provider's configuration
    registry,       \* the OCI registry: manifests by digest, tags
    tfstate,        \* the Terraform state of the resource, or Nil
    tmp,            \* temporary resources left on disk by returned operations
    nops,           \* operations run so far
    last,           \* the last operation: its request and what it did
    \* ---- one ChartBuilder shared by concurrent callers ----
    bfile,          \* the APK file the builder was made for
    builder,        \* the builder's fields
    pc,             \* per caller: where it is in its call
    synced,         \* per caller: has it passed once.Do after the body ended
    calls,          \* per caller: calls started so far
    rets,           \* what the calls returned
    bodyRuns        \* how many times the body of once.Do was entered

imgVars == <<apkIn, artifact, lookup, again, digests>>
patVars == <<patIn, patOut>>
resVars == <<gen, client, registry, tfstate, tmp, nops, last>>
bldVars == <<bfile, builder, pc, synced, calls, rets, bodyRuns>>

vars == <<apkIn, artifact, lookup, again, digests, patIn, patOut, gen, client, registry, tfstate, tmp, nops, last,
          bfile, builder, pc, synced, calls, rets, bodyRuns>>

\* ------------------------------------------------------------------------
\* Generic helpers
\* ------------------------------------------------------------------------

Nil == [nil |-> TRUE]

RECURSIVE SetToSeq(_)
SetToSeq(S) ==
    IF S = {} THEN <<>>
    ELSE LET x == CHOOSE x \in S : TRUE IN <<x>> \o SetToSeq(S \ {x})

Tok(k, v) == [k |-> k, v |-> v]

\* The value of the first token with key k, or <<>> when there is none.
RECURSIVE TokValue(_, _)
TokValue(bytes, k) ==
    IF bytes = <<>> THEN <<>>
    ELSE IF Head(bytes).k = k THEN Head(bytes).v
    ELSE TokValue(Tail(bytes), k)

\* ------------------------------------------------------------------------
\* Hashes and compression (go-containerregistry v1.SHA256, gzip)
\* ------------------------------------------------------------------------

\* A collision-free content hash: equal exactly when the bytes are equal.
SHA256(bytes) == [alg |-> "sha256", of |-> bytes]

Gzip(bytes) == <<Tok("gzip", <<>>)>> \o bytes

\* ------------------------------------------------------------------------
\* Media types
\* ------------------------------------------------------------------------

ConfigMediaType == "application/vnd.cncf.helm.config.v1+json"
ChartLayerMediaType == "application/vnd.cncf.helm.chart.content.v1.tar+gzip"
OCIManifestMediaType == "application/vnd.oci.image.manifest.v1+json"
SchemaVersion == 2

\* ------------------------------------------------------------------------
\* Chart metadata (helm chart.Metadata), YAML parsing, JSON serialisation
\* ------------------------------------------------------------------------

TitleKey == "org.opencontainers.image.title"
VersionKey == "org.opencontainers.image.version"
DescriptionKey == "org.opencontainers.image.description"
SourceKey == "org.opencontainers.image.source"
CustomKey == "thisshould"

\* Annotation keys in the byte order encoding/json sorts map keys by.
AnnKeyOrder == <<DescriptionKey, SourceKey, TitleKey, VersionKey, CustomKey>>

EmptyMap == [k \in {} |-> <<>>]

ZeroMetadata ==
    [name |-> "", version |-> "", description |-> "", sources |-> <<>>,
     annotations |-> EmptyMap]

\* A map as the token value <<k1, v1, k2, v2, ...>>, keys in AnnKeyOrder.
RECURSIVE FlattenMapFrom(_, _)
FlattenMapFrom(m, i) ==
    IF i > Len(AnnKeyOrder) THEN <<>>
    ELSE (IF AnnKeyOrder[i] \in DOMAIN m THEN <<AnnKeyOrder[i], m[AnnKeyOrder[i]]>>
          ELSE <<>>) \o FlattenMapFrom(m, i + 1)

FlattenMap(m) == FlattenMapFrom(m, 1)

\* The map written as <<k1, v1, k2, v2, ...>>; a later pair of a key wins.
RECURSIVE UnflattenMap(_)
UnflattenMap(kv) ==
    IF Len(kv) < 2 THEN EmptyMap
    ELSE LET rest == UnflattenMap(Tail(Tail(kv)))
         IN [k \in DOMAIN rest \cup {kv[1]} |->
                IF k \in DOMAIN rest THEN rest[k] ELSE kv[2]]

Str(v) == IF v = <<>> THEN "" ELSE v[1]

\* Decoding a document of tokens into a chart.Metadata: a field without a
\* token keeps its zero value, a token of an unknown key is ignored.
DecodeMetadata(bytes) ==
    [name |-> Str(TokValue(bytes, "name")),
     version |-> Str(TokValue(bytes, "version")),
     description |-> Str(TokValue(bytes, "description")),
     sources |-> TokValue(bytes, "sources"),
     annotations |-> UnflattenMap(TokValue(bytes, "annotations"))]

IsMalformed(bytes) == \E i \in 1..Len(bytes) : bytes[i].k = "#malformed"

\* yaml.Unmarshal(bytes, &metadata): err is "" on success.
YAMLUnmarshal(bytes) ==
    IF IsMalformed(bytes) THEN [err |-> "yaml: unmarshal error", md |-> ZeroMetadata]
    ELSE [err |-> "", md |-> DecodeMetadata(bytes)]

OmitEmptyStr(k, s) == IF s = "" THEN <<>> ELSE <<Tok(k, <<s>>)>>
OmitEmptySeq(k, s) == IF s = <<>> THEN <<>> ELSE <<Tok(k, s)>>

\* json.Marshal(metadata): the fields in struct order, every one omitempty.
JSONMarshal(md) ==
    OmitEmptyStr("name", md.name)
    \o OmitEmptySeq("sources", md.sources)
    \o OmitEmptyStr("version", md.version)
    \o OmitEmptyStr("description", md.description)
    \o OmitEmptySeq("annotations", FlattenMap(md.annotations))

\* json.Unmarshal(config, &chartMeta)
JSONUnmarshal(bytes) ==
    IF IsMalformed(bytes) THEN [err |-> "json: unmarshal error", md |-> ZeroMetadata]
    ELSE [err |-> "", md |-> DecodeMetadata(bytes)]

\* ------------------------------------------------------------------------
\* Tar archives and layers
\* ------------------------------------------------------------------------

TypeReg == "reg"
TypeDir == "dir"

\* A tar entry: name is the path as its sequence of segments.
Entry(name, typeflag, content) ==
    [name |-> name, typeflag |-> typeflag, content |-> content]

\* The bytes a tar.Writer produces for the entries written to it.
RECURSIVE TarBytes(_)
TarBytes(entries) ==
    IF entries = <<>> THEN <<>>
    ELSE <<Tok(IF Head(entries).typeflag = TypeReg THEN "tar.reg" ELSE "tar.dir",
               Head(entries).name)>>
         \o Head(entries).content \o TarBytes(Tail(entries))

\* strings.HasSuffix(name, "/Chart.yaml")
HasChartYamlSuffix(name) == Len(name) >= 2 /\ name[Len(name)] = "Chart.yaml"

\* tarball.LayerFromOpener(opener, tarball.WithMediaType(mt)): the opener
\* yields an uncompressed tar, which the layer compresses.
LayerFromOpener(tarBytes, mt) ==
    [mediaType |-> mt, uncompressed |-> tarBytes, compressed |-> Gzip(tarBytes)]

\* static.NewLayer(b, mt): the bytes are stored as they are.
StaticLayer(b, mt) == [mediaType |-> mt, uncompressed |-> b, compressed |-> b]

LayerDigest(l) == SHA256(l.compressed)
LayerDiffID(l) == SHA256(l.uncompressed)
LayerSize(l) == Len(l.compressed)

\* partial.Descriptor(layer)
Descriptor(l) ==
    [mediaType |-> l.mediaType, size |-> LayerSize(l), digest |-> LayerDigest(l)]

\* ------------------------------------------------------------------------
\* image.ChartImage (the provider generation's artifact)
\* ------------------------------------------------------------------------

\* image.ChartYAMLToConfig: Chart.yaml bytes to the JSON configuration.
ChartYAMLToConfig(chartYAML) ==
    LET u == YAMLUnmarshal(chartYAML)
    IN IF u.err # "" THEN [err |-> "failed to parse Chart.yaml", config |-> <<>>]
       ELSE [err |-> "", config |-> JSONMarshal(u.md)]

\* The standard annotations NewChartImage derives from the metadata: a key
\* is set only when its field is not empty.
DerivedAnnotations(md) ==
    LET keys == (IF md.name # "" THEN {TitleKey} ELSE {})
                \cup (IF md.version # "" THEN {VersionKey} ELSE {})
                \cup (IF md.description # "" THEN {DescriptionKey} ELSE {})
                \cup (IF Len(md.sources) > 0 /\ md.sources[1] # "" THEN {SourceKey} ELSE {})
    IN [k \in keys |->
           IF k = TitleKey THEN <<md.name>>
           ELSE IF k = VersionKey THEN <<md.version>>
           ELSE IF k = DescriptionKey THEN <<md.description>>
           ELSE <<md.sources[1]>>]

\* The custom annotations left out altogether.
OverlayNone(base, custom) == base

\* The orders in which a range over the map m may visit its keys.
Orders(m) ==
    {o \in [1..Cardinality(DOMAIN m) -> DOMAIN m] :
        \A k \in DOMAIN m : \E i \in DOMAIN o : o[i] = k}

\* "for k, v := range chartMeta.Annotations": the loop over the custom
\* annotations, visiting the keys in order; a key is set when it does not
\* exist yet.
RECURSIVE OverlayInOrder(_, _, _)
OverlayInOrder(annotations, custom, order) ==
    IF order = <<>> THEN annotations
    ELSE OverlayInOrder(
             IF Head(order) \in DOMAIN annotations THEN annotations
             ELSE [k \in DOMAIN annotations \cup {Head(order)} |->
                      IF k = Head(order) THEN <<custom[k]>> ELSE annotations[k]],
             custom, Tail(order))

\* The custom annotations added for the keys not already set.
OverlayIfAbsent(base, custom) == OverlayInOrder(base, custom, SetToSeq(DOMAIN custom))

\* The lookup maps: the chart layer is entered first, the config layer second.
IndexBy(layerHash, configHash, layer, configLayer) ==
    [h \in {layerHash, configHash} |->
        IF h = configHash THEN configLayer ELSE layer]

NewChartImageManifest(layer, configLayer, annotations) ==
    [schemaVersion |-> SchemaVersion,
     mediaType |-> OCIManifestMediaType,
     config |-> [mediaType |-> ConfigMediaType,
                 size |-> LayerSize(configLayer),
                 digest |-> LayerDigest(configLayer)],
     layers |-> <<[mediaType |-> ChartLayerMediaType,
                   size |-> LayerSize(layer),
                   digest |-> LayerDigest(layer)]>>,
     annotations |-> annotations]

NewChartImage(layer, config) ==
    LET configLayer == StaticLayer(config, ConfigMediaType)
        parsed == JSONUnmarshal(config)
        chartMeta == IF parsed.err # "" THEN ZeroMetadata ELSE parsed.md
        annotations == OverlayIfAbsent(DerivedAnnotations(chartMeta),
                                       chartMeta.annotations)
    IN [kind |-> "ChartImage",
        manifest |-> NewChartImageManifest(layer, configLayer, annotations),
        layer |-> layer,
        config |-> configLayer,
        byDiffIDs |-> IndexBy(LayerDiffID(layer), LayerDiffID(configLayer),
                             layer, configLayer),
        byDigests |-> IndexBy(LayerDigest(layer), LayerDigest(configLayer),
                             layer, configLayer)]

\* NewChartImage when its range over the annotations of the metadata md
\* parsed from config visits the keys in order.
NewChartImageIn(layer, config, md, order) ==
    [NewChartImage(layer, config) EXCEPT
        !.manifest.annotations = OverlayInOrder(DerivedAnnotations(md), md.annotations, order)]

\* ------------------------------------------------------------------------
\* chart (the chart generation's artifact)
\* ------------------------------------------------------------------------

EmptyIndex == [h \in {} |-> Nil]

\* The chart value chart.Build returns: both lookup maps are made empty.
NewChart(metadata, content) ==
    [kind |-> "chart",
     metadata |-> metadata,
     content |-> content,
     diffIDs |-> EmptyIndex,
     digestIDs |-> EmptyIndex]

\* A configuration layer of the fallback bytes, whatever the metadata.
ChartConfigLayerEmpty(c) == StaticLayer(<<>>, ConfigMediaType)

\* chart.config()
ChartConfigLayer(c) == StaticLayer(JSONMarshal(c.metadata), ConfigMediaType)

\* strings.Join(sources, ","): the joined string, as the parts it joins.
JoinSources(sources) == sources

\* A copy that stops after the first key it visits.
MapsCopyFirstVisited(dst, src, order) ==
    IF order = <<>> THEN dst
    ELSE [k \in DOMAIN dst \cup {Head(order)} |->
             IF k = Head(order) THEN <<src[k]>> ELSE dst[k]]

\* maps.Copy(dst, src), "for k, v := range src { dst[k] = v }", the range
\* visiting the keys of src in order.
RECURSIVE MapsCopy(_, _, _)
MapsCopy(dst, src, order) ==
    IF order = <<>> THEN dst
    ELSE MapsCopy([k \in DOMAIN dst \cup {Head(order)} |->
                      IF k = Head(order) THEN <<src[k]>> ELSE dst[k]],
                  src, Tail(order))

\* chart.Manifest() when maps.Copy visits the annotations of the metadata
\* in order. Nothing is kept between two calls: each call builds the
\* configuration layer, the descriptors and the annotations anew.
ChartManifestIn(c, order) ==
    LET base == [k \in {TitleKey, VersionKey, DescriptionKey}
                      \cup (IF Len(c.metadata.sources) > 0 THEN {SourceKey} ELSE {}) |->
                   IF k = TitleKey THEN <<c.metadata.name>>
                   ELSE IF k = VersionKey THEN <<c.metadata.version>>
                   ELSE IF k = DescriptionKey THEN <<c.metadata.description>>
                   ELSE JoinSources(c.metadata.sources)]
    IN [schemaVersion |-> SchemaVersion,
        mediaType |-> OCIManifestMediaType,
        config |-> Descriptor(ChartConfigLayer(c)),
        layers |-> <<Descriptor(c.content)>>,
        annotations |-> MapsCopy(base, c.metadata.annotations, order)]

ChartManifest(c) == ChartManifestIn(c, SetToSeq(DOMAIN c.metadata.annotations))

\* ------------------------------------------------------------------------
\* The v1.Image methods of both artifacts
\* ------------------------------------------------------------------------

Manifest(a) == IF a.kind = "ChartImage" THEN a.manifest ELSE ChartManifest(a)

\* Layers() answering with the configuration layer.
LayersOfConfig(a) ==
    IF a.kind = "ChartImage" THEN <<a.config>> ELSE <<ChartConfigLayer(a)>>

Layers(a) == IF a.kind = "ChartImage" THEN <<a.layer>> ELSE <<a.content>>

MediaType(a) == OCIManifestMediaType

RawConfigFile(a) ==
    IF a.kind = "ChartImage" THEN a.config.uncompressed ELSE JSONMarshal(a.metadata)

\* ChartImage: the config layer's digest; chart: partial.ConfigName, the
\* hash of RawConfigFile().
ConfigName(a) ==
    IF a.kind = "ChartImage" THEN LayerDigest(a.config) ELSE SHA256(RawConfigFile(a))

\* json.Marshal(manifest) and its hash.
RawManifest(a) == <<[manifest |-> Manifest(a)]>>
Digest(a) == SHA256(RawManifest(a))

\* The orders the range of one Manifest() call may visit the annotations
\* in: ChartImage keeps the manifest made at construction, chart ranges over
\* the annotations of its metadata in every call.
ManifestOrders(a) ==
    IF a.kind = "ChartImage" THEN {<<>>} ELSE Orders(a.metadata.annotations)

\* One RawManifest() call whose range visits in order; Digest() is the
\* hash of its bytes. json.Marshal writes the keys of a map sorted, so the bytes are
\* those of the map and not of the order it was filled in.
RawManifestIn(a, order) ==
    <<[manifest |-> IF a.kind = "ChartImage" THEN a.manifest
                    ELSE ChartManifestIn(a, order)]>>

NotFound == [layer |-> Nil, err |-> "not found"]

LookupIn(index, hash) ==
    IF hash \in DOMAIN index THEN [layer |-> index[hash], err |-> ""] ELSE NotFound

LayerByDigest(a, hash) ==
    LookupIn(IF a.kind = "ChartImage" THEN a.byDigests ELSE a.digestIDs, hash)

LayerByDiffID(a, diffID) ==
    LookupIn(IF a.kind = "ChartImage" THEN a.byDiffIDs ELSE a.diffIDs, diffID)

\* ------------------------------------------------------------------------
\* ChartBuilder (the provider generation): the builder's fields and methods
\* ------------------------------------------------------------------------

\* An APK file on disk: Missing when the path does not exist. The data
\* section is the tar of the entries; valid is FALSE for a stream that
\* expandapk cannot split.
Missing == [missing |-> TRUE]

\* The builder NewChartBuilder returns.
NewBuilder ==
    [chartYaml |-> <<>>, chartDir |-> <<>>, metadata |-> Nil,
     once |-> "idle", chartYamlErr |-> ""]

\* strings.TrimSuffix(header.Name, "/Chart.yaml")
TrimChartYaml(name) == SubSeq(name, 1, Len(name) - 1)

\* The index of the first regular entry named */Chart.yaml, 0 when none.
RECURSIVE FirstChartYamlFrom(_, _)
FirstChartYamlFrom(entries, i) ==
    IF i > Len(entries) THEN 0
    ELSE IF entries[i].typeflag = TypeReg /\ HasChartYamlSuffix(entries[i].name) THEN i
    ELSE FirstChartYamlFrom(entries, i + 1)

\* The body sync.Once runs in findChartYaml, in three parts. The scan, from
\* the opening of the file to the end of the loop over the entries: the
\* first regular */Chart.yaml is kept, or the error is set.
BodyScanned(b, file) ==
    IF file = Missing THEN [b EXCEPT !.chartYamlErr = "failed to open APK file"]
    ELSE IF ~file.valid THEN [b EXCEPT !.chartYamlErr = "failed to expand APK file"]
    ELSE IF FirstChartYamlFrom(file.data, 1) = 0
    THEN [b EXCEPT !.chartYamlErr = "failed: Chart.yaml not found in APK package"]
    ELSE [b EXCEPT
             !.chartDir = TrimChartYaml(file.data[FirstChartYamlFrom(file.data, 1)].name),
             !.chartYaml = file.data[FirstChartYamlFrom(file.data, 1)].content]

\* c.metadata = &chart.Metadata{}
BodyAllocated(b) == [b EXCEPT !.metadata = ZeroMetadata]

\* yaml.Unmarshal(c.chartYaml, c.metadata): on an error the metadata stays
\* as allocated and the error is set.
BodyParsed(b) ==
    [b EXCEPT !.metadata = YAMLUnmarshal(b.chartYaml).md,
              !.chartYamlErr = IF YAMLUnmarshal(b.chartYaml).err # ""
                               THEN "failed to parse Chart.yaml" ELSE ""]

\* The whole body, from the builder the scan left.
BodyFrom(scanned) ==
    IF scanned.chartYamlErr # "" THEN [scanned EXCEPT !.once = "done"]
    ELSE [BodyParsed(BodyAllocated(scanned)) EXCEPT !.once = "done"]

OnceBody(b, file) == BodyFrom(BodyScanned(b, file))

\* findChartYaml: the body runs on the first call only; every call
\* returns c.chartYamlErr.
FindChartYaml(b, file) == IF b.once = "done" THEN b ELSE OnceBody(b, file)

\* GetChartMetadata: [b, md, err]
GetChartMetadata(b, file) ==
    IF b.metadata = Nil
    THEN LET b1 == FindChartYaml(b, file)
         IN IF b1.chartYamlErr # ""
            THEN [b |-> b1, md |-> Nil, err |-> b1.chartYamlErr]
            ELSE [b |-> b1, md |-> b1.metadata, err |-> ""]
    ELSE [b |-> b, md |-> b.metadata, err |-> ""]

\* The error of buildChartLayer after a Chart.yaml content shorter than its
\* header's size, rest being the entries left: the tar writer reports the
\* bytes missed at its next WriteHeader, or at Close when no header follows
\* (the entries under var are skipped without one).
MissedBytesError(rest) ==
    IF \E i \in DOMAIN rest :
          \/ rest[i].typeflag = TypeReg /\ HasChartYamlSuffix(rest[i].name)
          \/ rest[i].name[1] # "var"
    THEN "failed to write header"
    ELSE "failed to close chart writer"

\* The loop of buildChartLayer over the entries left, out being the
\* entries written so far: [out, err]. A */Chart.yaml entry keeps its header
\* and gets the cached Chart.yaml as content; the tar writer refuses content
\* that is not of the header's size.
RECURSIVE LayerLoop(_, _, _)
LayerLoop(entries, chartYaml, out) ==
    IF entries = <<>> THEN [out |-> out, err |-> ""]
    ELSE LET e == Head(entries)
         IN IF e.typeflag = TypeReg /\ HasChartYamlSuffix(e.name)
            THEN IF Len(chartYaml) > Len(e.content)
                 THEN [out |-> out, err |-> "failed to copy Chart.yaml content"]
                 ELSE IF Len(chartYaml) < Len(e.content)
                 THEN [out |-> out,
                       err |-> MissedBytesError(Tail(entries))]
                 ELSE LayerLoop(Tail(entries), chartYaml,
                                Append(out, [e EXCEPT !.content = chartYaml]))
            ELSE IF e.name[1] = "var"
            THEN LayerLoop(Tail(entries), chartYaml, out)
            ELSE LayerLoop(Tail(entries), chartYaml, Append(out, e))

\* buildChartLayer after its check of c.metadata, with the c.chartYaml it
\* reads: [tar, err]
LayerFrom(file, chartYaml) ==
    IF file = Missing THEN [tar |-> <<>>, err |-> "failed to open APK file"]
    ELSE IF ~file.valid THEN [tar |-> <<>>, err |-> "failed to expand APK file"]
    ELSE [tar |-> TarBytes(LayerLoop(file.data, chartYaml, <<>>).out),
          err |-> LayerLoop(file.data, chartYaml, <<>>).err]

\* "if c.metadata == nil { if err := c.findChartYaml() ...": the builder
\* after it.
EnsureFound(b, file) == IF b.metadata = Nil THEN FindChartYaml(b, file) ELSE b

\* Did that check return the error of findChartYaml.
FindFailed(b, found) == b.metadata = Nil /\ found.chartYamlErr # ""

\* buildChartLayer: [b, tar, err]
LayerWith(b, found, l) ==
    IF FindFailed(b, found) THEN [b |-> found, tar |-> <<>>, err |-> found.chartYamlErr]
    ELSE [b |-> found, tar |-> l.tar, err |-> l.err]

BuildChartLayer(b, file) ==
    LayerWith(b, EnsureFound(b, file), LayerFrom(file, EnsureFound(b, file).chartYaml))

\* AsImage from the layer bytes and the configuration on.
ImageFrom(tar, c) ==
    IF c.err # "" THEN [img |-> Nil, err |-> "failed to process Chart.yaml"]
    ELSE [img |-> NewChartImage(LayerFromOpener(tar, ChartLayerMediaType), c.config),
          err |-> ""]

\* AsImage from the result t of buildChartLayer on.
ImageLayered(t, i) ==
    IF t.err # "" THEN [b |-> t.b, img |-> Nil, err |-> "failed to build chart layer"]
    ELSE [b |-> t.b, img |-> i.img, err |-> i.err]

\* AsImage from its check of c.metadata on.
ImageFound(b, found, t) ==
    IF FindFailed(b, found) THEN [b |-> found, img |-> Nil, err |-> found.chartYamlErr]
    ELSE ImageLayered(t, ImageFrom(t.tar, ChartYAMLToConfig(t.b.chartYaml)))

\* AsImage: [b, img, err]
AsImage(b, file) ==
    ImageFound(b, EnsureFound(b, file), BuildChartLayer(EnsureFound(b, file), file))

\* ------------------------------------------------------------------------
\* Content patches (chart.patchedWith)
\* ------------------------------------------------------------------------

\* strings.HasSuffix(filename, ".yaml") || strings.HasSuffix(filename, ".yml"):
\* the extension is the last segment's part after its last dot.
YamlNames == {"Chart.yaml", "values.yaml", "extra.yml"}
IsYamlPath(rel) == rel # <<>> /\ rel[Len(rel)] \in YamlNames

HasKey(bytes, k) == \E i \in 1..Len(bytes) : bytes[i].k = k

ReplaceKey(bytes, k, v) ==
    [i \in 1..Len(bytes) |-> IF bytes[i].k = k THEN Tok(k, v) ELSE bytes[i]]

RemoveKey(bytes, k) == SelectSeq(bytes, LAMBDA t : t.k # k)

\* One add / replace / remove operation on a document: [doc, err]
ApplyOp(doc, o) ==
    IF o.op = "add"
    THEN [doc |-> IF HasKey(doc, o.path) THEN ReplaceKey(doc, o.path, o.value)
                  ELSE Append(doc, Tok(o.path, o.value)),
          err |-> ""]
    ELSE IF ~HasKey(doc, o.path)
    THEN [doc |-> doc, err |-> "path does not exist"]
    ELSE IF o.op = "replace"
    THEN [doc |-> ReplaceKey(doc, o.path, o.value), err |-> ""]
    ELSE [doc |-> RemoveKey(doc, o.path), err |-> ""]

RECURSIVE ApplyOps(_, _)
ApplyOps(doc, ops) ==
    IF ops = <<>> THEN [doc |-> doc, err |-> ""]
    ELSE LET r == ApplyOp(doc, Head(ops))
         IN IF r.err # "" THEN r ELSE ApplyOps(r.doc, Tail(ops))

IsComment(t) == t.k = "#comment"

\* A YAML document without any node.
IsEmptyDoc(bytes) == \A i \in 1..Len(bytes) : IsComment(bytes[i])

\* patchedWith(filename, original, patchOps): [content, err]. A YAML target
\* is patched in place, comments and order kept; any other target is decoded
\* as JSON, which a document holding comments is not, and written compact.
PatchedWith(filename, original, patchOps) ==
    IF IsYamlPath(filename)
    THEN IF ~patchOps.valid
         THEN [content |-> <<>>, err |-> "error unmarshalling JSON patch to YAML patch"]
         ELSE LET r == ApplyOps(original, patchOps.ops)
              IN IF r.err # "" \/ IsMalformed(original)
                 THEN [content |-> <<>>, err |-> "error applying YAML patch"]
                 ELSE [content |-> r.doc, err |-> ""]
    ELSE IF ~patchOps.valid
         THEN [content |-> <<>>, err |-> "error decoding JSON patch"]
         ELSE LET r == ApplyOps(original, patchOps.ops)
              IN IF r.err # "" \/ IsMalformed(original)
                    \/ (\E i \in 1..Len(original) : IsComment(original[i]))
                 THEN [content |-> <<>>, err |-> "error applying JSON patch"]
                 ELSE [content |-> r.doc, err |-> ""]

\* The keys of the documents, in the byte order encoding/json and
\* yaml.Marshal write the keys of a map in.
DocKeyOrder ==
    <<"annotations", "description", "digest", "image", "images", "name",
      "sidecar", "sources", "tag", "version">>

RECURSIVE SortKeysFrom(_, _)
SortKeysFrom(doc, i) ==
    IF i > Len(DocKeyOrder) THEN <<>>
    ELSE SelectSeq(doc, LAMBDA t : t.k = DocKeyOrder[i]) \o SortKeysFrom(doc, i + 1)

\* yaml.YAMLToJSON(raw): [json, err]. The document is decoded into a map and
\* marshalled: the comments are gone and the keys are sorted.
YAMLToJSON(raw) ==
    IF IsMalformed(raw) THEN [json |-> <<>>, err |-> "error converting YAML to JSON"]
    ELSE [json |-> SortKeysFrom(SelectSeq(raw, LAMBDA t : ~IsComment(t)), 1), err |-> ""]

\* yaml.JSONToYAML(json): the object marshalled as YAML, keys sorted.
JSONToYAML(json) == SortKeysFrom(json, 1)

\* The patch step of the earlier chartify, which takes decoded patches:
\* [content, err]. A YAML target is converted to JSON, patched and
\* converted back; any other target is patched as it is.
LegacyPatched(rel, raw, p) ==
    IF IsYamlPath(rel)
    THEN IF YAMLToJSON(raw).err # ""
         THEN [content |-> <<>>, err |-> YAMLToJSON(raw).err]
         ELSE LET r == ApplyOps(YAMLToJSON(raw).json, p.ops)
              IN IF r.err # ""
                 THEN [content |-> <<>>, err |-> "error applying patch to JSON"]
                 ELSE [content |-> JSONToYAML(r.doc), err |-> ""]
    ELSE LET r == ApplyOps(raw, p.ops)
         IN IF r.err # "" \/ IsMalformed(raw)
               \/ (\E i \in 1..Len(raw) : IsComment(raw[i]))
            THEN [content |-> <<>>, err |-> "error applying patch"]
            ELSE [content |-> r.doc, err |-> ""]

\* ------------------------------------------------------------------------
\* chart.chartify (the chart generation's layer builder)
\* ------------------------------------------------------------------------

\* strings.HasPrefix(hdr.Name, cd.name + "/"): a directory's name ends in /.
UnderChart(e, chartName) ==
    e.name[1] = chartName /\ (Len(e.name) >= 2 \/ e.typeflag = TypeDir)

\* filepath.Rel(cd.name, hdr.Name)
Rel(name) == Tail(name)

\* A Go map as the range of one run meets it: the pairs <<k, v>> in the
\* order they are visited.
Ranges(m) == {[i \in DOMAIN o |-> <<o[i], m[o[i]]>>] : o \in Orders(m)}

\* The walk of Resolve over the references, in the order the map gives
\* them: the reference of an image of the mapping is written to the values
\* key the mapping names for the image; a reference for no image of the
\* mapping is left alone; a reference that does not parse is an error.
RECURSIVE ResolveLoop(_, _, _)
ResolveLoop(images, imageRefs, doc) ==
    IF imageRefs = <<>> THEN [content |-> doc, err |-> ""]
    ELSE LET id == Head(imageRefs)[1]
             ref == Head(imageRefs)[2]
         IN IF id \notin DOMAIN images
            THEN ResolveLoop(images, Tail(imageRefs), doc)
            ELSE IF ref = ""
            THEN [content |-> <<>>, err |-> "invalid image reference"]
            ELSE ResolveLoop(images, Tail(imageRefs),
                             IF HasKey(doc, images[id])
                             THEN ReplaceKey(doc, images[id], <<ref>>)
                             ELSE Append(doc, Tok(images[id], <<ref>>)))

\* cd.mapping.Resolve(imageRefs, content): [content, err]. Resolve is code
\* of chainguard.dev/sdk/helm/images, a module the repository imports and
\* does not hold; it is taken as chartify uses and documents it ("resolves
\* the image values and merges into values.yaml"): the values are decoded,
\* every image of the mapping gets its reference, and the result is
\* marshalled, keys sorted and comments gone. It fails when the values do
\* not decode, when an image of the mapping has no reference, and when a
\* reference does not parse. imageRefs is the map in the order this run
\* ranges over it.
ResolveImages(mapping, imageRefs, content) ==
    LET images == UnflattenMap(mapping.refs)
    IN IF IsMalformed(content)
       THEN [content |-> <<>>, err |-> "values do not decode"]
       ELSE IF \E id \in DOMAIN images : \A i \in DOMAIN imageRefs : imageRefs[i][1] # id
       THEN [content |-> <<>>, err |-> "no reference for an image"]
       ELSE LET r == ResolveLoop(images, imageRefs,
                                 SelectSeq(content, LAMBDA t : ~IsComment(t)))
            IN IF r.err # "" THEN r
               ELSE [content |-> SortKeysFrom(r.content, 1), err |-> ""]

\* What chartify does with one entry under the chart, in the order of the
\* code: patch, resolve the images, parse Chart.yaml. [content, err, md],
\* md being Nil unless the entry is Chart.yaml.
PatchStep(rel, content, patches) ==
    IF rel \in DOMAIN patches THEN PatchedWith(rel, content, patches[rel])
    ELSE [content |-> content, err |-> ""]

ResolveStep(rel, cd, imageRefs, patched) ==
    IF patched.err # "" THEN [content |-> <<>>, err |-> "error applying patch to file"]
    ELSE IF rel = <<"values.yaml">> /\ cd.mapping # Nil /\ DOMAIN imageRefs # {}
    THEN IF ResolveImages(cd.mapping, imageRefs, patched.content).err # ""
         THEN [content |-> <<>>, err |-> "error resolving image values"]
         ELSE ResolveImages(cd.mapping, imageRefs, patched.content)
    ELSE patched

ParseStep(rel, resolved) ==
    IF resolved.err # ""
    THEN [content |-> <<>>, err |-> resolved.err, md |-> Nil, parsed |-> FALSE]
    ELSE IF rel # <<"Chart.yaml">>
    THEN [content |-> resolved.content, err |-> "", md |-> Nil, parsed |-> FALSE]
    ELSE IF IsMalformed(resolved.content)
    THEN [content |-> <<>>, err |-> "error parsing Chart.yaml", md |-> Nil, parsed |-> FALSE]
    ELSE [content |-> resolved.content, err |-> "",
          \* an empty document decodes to null, which leaves the pointer nil
          md |-> IF IsEmptyDoc(resolved.content) THEN Nil
                 ELSE DecodeMetadata(resolved.content),
          parsed |-> TRUE]

\* yaml.Unmarshal(content, &metadata) with the metadata of the entries
\* before: a document without a node makes the pointer nil; any other is
\* decoded into the struct the pointer has, so the fields it does not name
\* keep their values and its annotations are added to those there.
UnmarshalInto(metadata, content) ==
    IF IsEmptyDoc(content) THEN Nil
    ELSE IF metadata = Nil THEN DecodeMetadata(content)
    ELSE [name |-> IF HasKey(content, "name") THEN DecodeMetadata(content).name
                   ELSE metadata.name,
          version |-> IF HasKey(content, "version") THEN DecodeMetadata(content).version
                      ELSE metadata.version,
          description |-> IF HasKey(content, "description")
                          THEN DecodeMetadata(content).description
                          ELSE metadata.description,
          sources |-> IF HasKey(content, "sources") THEN DecodeMetadata(content).sources
                      ELSE metadata.sources,
          annotations |->
              [k \in DOMAIN metadata.annotations
                       \cup DOMAIN DecodeMetadata(content).annotations |->
                  IF k \in DOMAIN DecodeMetadata(content).annotations
                  THEN DecodeMetadata(content).annotations[k]
                  ELSE metadata.annotations[k]]]

ChartifyEntry(e, cd, patches, imageRefs) ==
    ParseStep(Rel(e.name),
              ResolveStep(Rel(e.name), cd, imageRefs,
                          PatchStep(Rel(e.name), e.content, patches)))

\* The loop of chartify: [out, metadata, err]. An entry outside the chart
\* is skipped; the header is written as it was read, with the size of the
\* content written.
RECURSIVE ChartifyLoop(_, _, _, _, _, _)
ChartifyWrite(entries, cd, patches, imageRefs, out, metadata, r) ==
    IF r.err # "" THEN [out |-> out, metadata |-> metadata, err |-> r.err]
    ELSE ChartifyLoop(Tail(entries), cd, patches, imageRefs,
                      Append(out, [Head(entries) EXCEPT !.content = r.content]),
                      IF r.parsed THEN UnmarshalInto(metadata, r.content) ELSE metadata)

ChartifyLoop(entries, cd, patches, imageRefs, out, metadata) ==
    IF entries = <<>> THEN [out |-> out, metadata |-> metadata, err |-> ""]
    ELSE IF ~UnderChart(Head(entries), cd.name)
    THEN ChartifyLoop(Tail(entries), cd, patches, imageRefs, out, metadata)
    ELSE ChartifyWrite(entries, cd, patches, imageRefs, out, metadata,
                       ChartifyEntry(Head(entries), cd, patches, imageRefs))

\* chartify(cd, patches, imageRefs): [layer, metadata, err]
Chartify(cd, patches, imageRefs) ==
    LET r == ChartifyLoop(cd.data, cd, patches, imageRefs, <<>>, Nil)
    IN IF r.err # "" THEN [layer |-> Nil, metadata |-> Nil, err |-> r.err]
       ELSE IF r.metadata = Nil
       THEN [layer |-> Nil, metadata |-> Nil, err |-> "could not find Chart.yaml"]
       ELSE [layer |-> LayerFromOpener(TarBytes(r.out), ChartLayerMediaType),
             metadata |-> r.metadata, err |-> ""]

\* ------------------------------------------------------------------------
\* The package repository and its resolver (apko's ResolveWorld and
\* FetchPackage, as the callers and their tests rely on them)
\* ------------------------------------------------------------------------

NoVersion == 0

\* A world entry: "name" (version NoVersion) or "name=version".
World(name, version) == [name |-> name, version |-> version]

Provides(p, name) == p.name = name \/ name \in p.provides

\* The highest version among the packages ps (not empty).
Highest(ps) == CHOOSE p \in ps : \A q \in ps : q.version <= p.version

\* ResolveWorld: [pkgs, conflicts, err]. The package chosen for the world
\* entry is the highest version that provides the name and satisfies the
\* version constraint; its dependencies precede it.
ResolveWorld(repo, world) ==
    LET providers == {p \in repo : Provides(p, world.name)}
        matching == {p \in providers :
                        world.version = NoVersion \/ p.version = world.version}
    IN IF providers = {}
       THEN [pkgs |-> <<>>, conflicts |-> {}, err |-> "nothing provides"]
       ELSE IF matching = {}
       THEN [pkgs |-> <<>>, conflicts |-> {}, err |-> "does not satisfy"]
       ELSE LET chosen == Highest(matching)
                named(d) == {p \in repo : p.name = d}
                deps == {Highest(named(d)) : d \in {d \in chosen.deps : named(d) # {}}}
                installed == deps \cup {chosen}
            IN IF \E d \in chosen.deps : named(d) = {}
               THEN [pkgs |-> <<>>, conflicts |-> {}, err |-> "nothing provides"]
               ELSE [pkgs |-> SetToSeq(deps) \o <<chosen>>,
                     conflicts |-> UNION {p.conflicts : p \in installed},
                     err |-> ""]

\* The first package of pkgs named name, Nil when there is none.
RECURSIVE FirstNamed(_, _)
FirstNamed(pkgs, name) ==
    IF pkgs = <<>> THEN Nil
    ELSE IF Head(pkgs).name = name THEN Head(pkgs)
    ELSE FirstNamed(Tail(pkgs), name)

\* ------------------------------------------------------------------------
\* chart.Build (the chart generation): BuildConfig.bc, fetch, Build
\* ------------------------------------------------------------------------

\* BuildConfig.bc: the world holds the bare package name; an empty Arch
\* becomes the architecture of the running machine.
BuildContext(name, config, goarch) ==
    [world |-> World(name, NoVersion),
     arch |-> IF config.arch = "" THEN goarch ELSE config.arch]

\* The scan of fetch over the data section: [chartName, mapping]. chartName
\* is "" until a <dir>/Chart.yaml with a single <dir> is seen.
RECURSIVE ScanChart(_, _, _)
ScanChart(entries, chartName, mapping) ==
    IF entries = <<>> THEN [chartName |-> chartName, mapping |-> mapping, err |-> ""]
    ELSE LET e == Head(entries)
         IN \* the name of a directory ends in a slash
            IF e.typeflag # TypeDir /\ HasChartYamlSuffix(e.name)
            THEN ScanChart(Tail(entries),
                           IF Len(e.name) = 2 THEN e.name[1] ELSE chartName, mapping)
            ELSE IF /\ chartName # "" /\ e.typeflag # TypeDir
                    /\ e.name = <<chartName, "cg.json">>
            THEN IF IsMalformed(e.content)
                 THEN [chartName |-> chartName, mapping |-> Nil, err |-> "parsing cg.json"]
                 ELSE ScanChart(Tail(entries), chartName,
                                [refs |-> TokValue(e.content, "images")])
            ELSE ScanChart(Tail(entries), chartName, mapping)

\* A resolver result whose conflict list is never looked at.
ConflictsIgnored(r) == FALSE

\* len(conflicts) > 0
ConflictsDetected(r) == r.conflicts # {}

\* BuildConfig.fetch: [cd, err, fetched, resolved], fetched being the
\* arguments FetchPackage was called with, in order, resolved what
\* ResolveWorld returned (Nil when it was not reached). fail names the
\* external call that fails, if any.
FetchResult(cd, err, fetched, resolved) ==
    [cd |-> cd, err |-> err, fetched |-> fetched, resolved |-> resolved]

\* fetch from the call of FetchPackage on: chartPkg is what the loop over
\* pkgs left, s the scan of its data section.
FetchDownload(fail, r, chartPkg, s) ==
    IF chartPkg = Nil
    THEN \* FetchPackage(ctx, nil): the nil package is dereferenced
         FetchResult(Nil, "panic: nil pointer dereference", <<chartPkg>>, r)
    ELSE IF fail = "FetchPackage"
    THEN FetchResult(Nil, "failed to download package", <<chartPkg>>, r)
    ELSE IF ~chartPkg.valid
    THEN FetchResult(Nil, "failed to split APK", <<chartPkg>>, r)
    ELSE IF s.err # ""
    THEN FetchResult(Nil, s.err, <<chartPkg>>, r)
    ELSE IF s.chartName = ""
    THEN FetchResult(Nil, "package is missing Chart.yaml", <<chartPkg>>, r)
    ELSE FetchResult([name |-> s.chartName, mapping |-> s.mapping, data |-> chartPkg.data],
                     "", <<chartPkg>>, r)

\* The scan of the package chosen, none when there is no package.
ScanOf(chartPkg) ==
    IF chartPkg = Nil THEN [chartName |-> "", mapping |-> Nil, err |-> ""]
    ELSE ScanChart(chartPkg.data, "", Nil)

\* fetch from the result r of ResolveWorld on.
FetchResolved(name, fail, r) ==
    IF r.err # "" \/ fail = "ResolveWorld"
    THEN FetchResult(Nil, "failed to resolve package", <<>>,
                     IF fail = "ResolveWorld" THEN Nil ELSE r)
    ELSE IF ConflictsDetected(r)
    THEN FetchResult(Nil, "package conflicts detected", <<>>, r)
    ELSE FetchDownload(fail, r, FirstNamed(r.pkgs, name),
                       ScanOf(FirstNamed(r.pkgs, name)))

Fetch(repo, name, config, goarch, fail) ==
    IF fail = "build.New" THEN FetchResult(Nil, "build.New", <<>>, Nil)
    ELSE FetchResolved(name, fail,
                       ResolveWorld(repo, BuildContext(name, config, goarch).world))

\* chart.Build: [chart, err, fetched, resolved]
BuildResult(chart, err, f) ==
    [chart |-> chart, err |-> err, fetched |-> f.fetched, resolved |-> f.resolved]

\* Build from the result l of chartify on.
BuildLayered(f, l) ==
    IF l.err # "" THEN BuildResult(Nil, "failed to build chart layer", f)
    ELSE BuildResult(NewChart(l.metadata, l.layer), "", f)

\* Build from the result f of fetch on.
BuildFetched(config, f) ==
    IF f.err # "" THEN BuildResult(Nil, f.err, f)
    ELSE BuildLayered(f, Chartify(f.cd, config.patches, config.images))

Build(repo, name, config, goarch, fail) ==
    BuildFetched(config, Fetch(repo, name, config, goarch, fail))

\* ------------------------------------------------------------------------
\* provider.fetchAPKPackage (the provider generation)
\* ------------------------------------------------------------------------

\* Temporary resources on disk, named by their kind.
BuildDir == "apko-build dir"
ApkFile == "apk file"
ExtractDir == "apk-extract dir"

\* fetchAPKPackage: [file, cleanup, err, fetched, resolved, tmp]. file is
\* the package written to the temporary file (Missing on error), cleanup
\* says whether a cleanup function is returned, tmp the temporary resources
\* on disk at the return. packageVersion is NoVersion for a nil pointer.
FetchFailed(err, fetched, resolved) ==
    [file |-> Missing, cleanup |-> TRUE, err |-> err, fetched |-> fetched,
     resolved |-> resolved, tmp |-> {BuildDir}]

\* fetchAPKPackage from the loop over pkgs on, targetPkg being what it left.
FetchTarget(fail, r, targetPkg) ==
    IF targetPkg = Nil THEN FetchFailed("package not found in repository", <<>>, r)
    ELSE IF fail = "FetchPackage"
    THEN FetchFailed("failed to download package", <<targetPkg>>, r)
    ELSE IF fail = "CreateTemp"
    THEN FetchFailed("failed to create temporary file", <<targetPkg>>, r)
    ELSE IF fail = "Copy"
    THEN \* the temporary file is closed and removed
         FetchFailed("failed to save package to temporary file", <<targetPkg>>, r)
    ELSE [file |-> targetPkg, cleanup |-> TRUE, err |-> "",
          fetched |-> <<targetPkg>>, resolved |-> r, tmp |-> {BuildDir, ApkFile}]

\* fetchAPKPackage from the result r of ResolveWorld on.
FetchAPKResolved(packageName, fail, r) ==
    IF r.err # "" \/ fail = "ResolveWorld"
    THEN FetchFailed("failed to resolve package", <<>>,
                     IF fail = "ResolveWorld" THEN Nil ELSE r)
    ELSE IF ConflictsDetected(r) THEN FetchFailed("package conflicts detected", <<>>, r)
    ELSE FetchTarget(fail, r, FirstNamed(r.pkgs, packageName))

FetchAPKPackage(repo, packageName, packageVersion, arch, fail) ==
    IF fail = "MkdirTemp"
    THEN [file |-> Missing, cleanup |-> FALSE,
          err |-> "failed to create temp directory", fetched |-> <<>>,
          resolved |-> Nil, tmp |-> {}]
    ELSE IF fail = "build.New"
    THEN FetchFailed("failed to create build context", <<>>, Nil)
    ELSE FetchAPKResolved(packageName, fail,
                          ResolveWorld(repo, World(packageName, packageVersion)))

\* A constructor that makes its extraction directory before it looks at
\* the path.
NewChartBuilderEager(file, isDir, fail) ==
    IF file = Missing THEN [b |-> Nil, err |-> "invalid APK file path", tmp |-> {ExtractDir}]
    ELSE IF isDir
    THEN [b |-> Nil, err |-> "APK file path is a directory, not a file",
          tmp |-> {ExtractDir}]
    ELSE IF fail = "builder.MkdirTemp"
    THEN [b |-> Nil, err |-> "failed to create temp directory", tmp |-> {}]
    ELSE [b |-> NewBuilder, err |-> "", tmp |-> {ExtractDir}]

\* NewChartBuilder(apkFilePath): [b, err, tmp], tmp the extraction
\* directory when one was made.
NewChartBuilder(file, isDir, fail) ==
    IF file = Missing THEN [b |-> Nil, err |-> "invalid APK file path", tmp |-> {}]
    ELSE IF isDir
    THEN [b |-> Nil, err |-> "APK file path is a directory, not a file", tmp |-> {}]
    ELSE IF fail = "builder.MkdirTemp"
    THEN [b |-> Nil, err |-> "failed to create temp directory", tmp |-> {}]
    ELSE [b |-> NewBuilder, err |-> "", tmp |-> {ExtractDir}]

\* ------------------------------------------------------------------------
\* The chart.Build that preceded the one above (fetch parses the metadata)
\* ------------------------------------------------------------------------

\* The end of the earlier fetch: the metadata parsed from the first entry
\* named */Chart.yaml, at any depth: [metadata, err]. Without such an
\* entry the metadata are nil and there is no error. The name of a
\* directory ends in a slash and has not the suffix.
LegacyMetadata(entries) ==
    IF \A i \in DOMAIN entries :
          entries[i].typeflag = TypeDir \/ ~HasChartYamlSuffix(entries[i].name)
    THEN [metadata |-> Nil, err |-> ""]
    ELSE LET raw == entries[CHOOSE i \in DOMAIN entries :
                               /\ entries[i].typeflag # TypeDir
                               /\ HasChartYamlSuffix(entries[i].name)
                               /\ \A j \in 1..(i - 1) :
                                      \/ entries[j].typeflag = TypeDir
                                      \/ ~HasChartYamlSuffix(entries[j].name)].content
         IN IF IsMalformed(raw)
            THEN [metadata |-> Nil, err |-> "error marshalling Chart.yaml"]
            ELSE [metadata |-> IF IsEmptyDoc(raw) THEN Nil ELSE DecodeMetadata(raw),
                  err |-> ""]

\* The loop of the earlier chartify: [out, err]. The entries under
\* <metadata.Name>/ are kept, a patch target patched, the others copied.
RECURSIVE LegacyChartifyLoop(_, _, _, _)
LegacyChartifyLoop(entries, name, patches, out) ==
    IF entries = <<>> THEN [out |-> out, err |-> ""]
    ELSE IF ~UnderChart(Head(entries), name)
    THEN LegacyChartifyLoop(Tail(entries), name, patches, out)
    ELSE IF Rel(Head(entries).name) \notin DOMAIN patches
    THEN LegacyChartifyLoop(Tail(entries), name, patches, Append(out, Head(entries)))
    ELSE LET r == LegacyPatched(Rel(Head(entries).name), Head(entries).content,
                                patches[Rel(Head(entries).name)])
         IN IF r.err # "" THEN [out |-> out, err |-> r.err]
            ELSE LegacyChartifyLoop(Tail(entries), name, patches,
                                    Append(out, [Head(entries) EXCEPT !.content = r.content]))

\* The earlier Build from the fetched package on: [chart, err]. The
\* metadata of the chart are those fetch parsed.
LegacyBuild(pkg, patches) ==
    IF ~pkg.valid THEN [chart |-> Nil, err |-> "failed to split APK"]
    ELSE IF LegacyMetadata(pkg.data).err # ""
    THEN [chart |-> Nil, err |-> LegacyMetadata(pkg.data).err]
    ELSE IF LegacyMetadata(pkg.data).metadata = Nil /\ pkg.data # <<>>
    THEN \* chartify reads metadata.Name of the nil metadata at its first entry
         [chart |-> Nil, err |-> "panic: nil pointer dereference"]
    ELSE IF LegacyMetadata(pkg.data).metadata = Nil
    THEN \* no entry: the loop is left at once, the chart has nil metadata
         [chart |-> NewChart(Nil, LayerFromOpener(TarBytes(<<>>), ChartLayerMediaType)),
          err |-> ""]
    ELSE LET l == LegacyChartifyLoop(pkg.data, LegacyMetadata(pkg.data).metadata.name,
                                     patches, <<>>)
         IN IF l.err # "" THEN [chart |-> Nil, err |-> "failed to build chart layer"]
            ELSE [chart |-> NewChart(LegacyMetadata(pkg.data).metadata,
                                     LayerFromOpener(TarBytes(l.out), ChartLayerMediaType)),
                  err |-> ""]

\* chart.DefaultArch; its definition is not among the sources, the README
\* names the fallback.
DefaultArch == "x86_64"

\* BuildConfig.bc of the earlier Build: an empty Arch becomes DefaultArch.
LegacyBuildContext(name, config) ==
    [world |-> World(name, NoVersion),
     arch |-> IF config.arch = "" THEN DefaultArch ELSE config.arch]

\* The earlier fetch and Build from the call of FetchPackage on, chartPkg
\* being what the loop over pkgs left, b the Build of its file:
\* [chart, err, fetched, resolved].
LegacyDownloaded(fail, r, chartPkg, b) ==
    IF chartPkg = Nil
    THEN \* FetchPackage(ctx, nil): the nil package is dereferenced
         [chart |-> Nil, err |-> "panic: nil pointer dereference",
          fetched |-> <<chartPkg>>, resolved |-> r]
    ELSE IF fail = "FetchPackage"
    THEN [chart |-> Nil, err |-> "failed to download package",
          fetched |-> <<chartPkg>>, resolved |-> r]
    ELSE [chart |-> b.chart, err |-> b.err, fetched |-> <<chartPkg>>, resolved |-> r]

\* The Build of the file of the package chosen, none when there is none.
LegacyBuildOf(chartPkg, patches) ==
    IF chartPkg = Nil THEN [chart |-> Nil, err |-> ""] ELSE LegacyBuild(chartPkg, patches)

\* The earlier fetch and Build from the result r of ResolveWorld on.
LegacyResolved(name, fail, r, patches) ==
    IF r.err # "" \/ fail = "ResolveWorld"
    THEN [chart |-> Nil, err |-> "failed to resolve package", fetched |-> <<>>,
          resolved |-> IF fail = "ResolveWorld" THEN Nil ELSE r]
    ELSE IF ConflictsDetected(r)
    THEN [chart |-> Nil, err |-> "package conflicts detected", fetched |-> <<>>,
          resolved |-> r]
    ELSE LegacyDownloaded(fail, r, FirstNamed(r.pkgs, name),
                          LegacyBuildOf(FirstNamed(r.pkgs, name), patches))

\* The earlier chart.Build, from the package repository:
\* [chart, err, fetched, resolved].
LegacyBuildFrom(repo, name, config, fail) ==
    IF fail = "build.New"
    THEN [chart |-> Nil, err |-> "build.New", fetched |-> <<>>, resolved |-> Nil]
    ELSE LegacyResolved(name, fail,
                        ResolveWorld(repo, LegacyBuildContext(name, config).world),
                        config.patches)

\* ------------------------------------------------------------------------
\* The registry (go-containerregistry name.ParseReference, remote.Write)
\* ------------------------------------------------------------------------

DefaultTag == "latest"

\* A repository string: its repository context and the tag written after
\* a colon, "" when it has none; bad for a string that does not parse.
RepoString(context, tag, bad) == [context |-> context, tag |-> tag, bad |-> bad]

\* name.ParseReference(s): a string without a tag parses as the tag
\* reference of the default tag.
ParseReference(s) ==
    IF s.bad THEN [err |-> "could not parse reference", ref |-> Nil]
    ELSE [err |-> "",
          ref |-> [context |-> s.context,
                   identifier |-> IF s.tag = "" THEN DefaultTag ELSE s.tag]]

\* remote.Write(ref, img): the blobs and the manifest are uploaded, and the
\* manifest is put under the reference's identifier.
RemoteWrite(reg, ref, img) ==
    [manifests |-> reg.manifests \cup {<<ref.context, Digest(img)>>},
     tags |-> [t \in DOMAIN reg.tags \cup {<<ref.context, ref.identifier>>} |->
                  IF t = <<ref.context, ref.identifier>> THEN Digest(img)
                  ELSE reg.tags[t]]]

\* oci.DefaultClient.Push: [reg, digest, err]
Push(reg, repository, img, fail) ==
    LET p == ParseReference(repository)
    IN IF p.err # "" THEN [reg |-> reg, digest |-> Nil, err |-> "failed to parse reference"]
       ELSE IF fail = "remote.Write"
       THEN [reg |-> reg, digest |-> Nil, err |-> "failed to push to registry"]
       ELSE [reg |-> RemoteWrite(reg, p.ref, img), digest |-> Digest(img), err |-> ""]

\* ------------------------------------------------------------------------
\* helmChartResource of the provider generation: Create and Update
\* ------------------------------------------------------------------------

\* What the deferred calls registered so far remove when the handler
\* returns: cleanup() and os.Remove(tempApkFile) once the fetch succeeded,
\* builder.Cleanup() once the builder was made.
Deferred(fetchOk, builderOk) ==
    (IF fetchOk THEN {BuildDir, ApkFile} ELSE {})
    \cup (IF builderOk THEN {ExtractDir} ELSE {})

ResourceID(repository, digest) == [repository |-> repository, digest |-> digest]

\* The part Create and Update share, from the configuration check to the
\* push: [diag, err, tmp, fetched, resolved, reg, md, digest, arch]. diag is
\* "" on success, tmp the temporary resources left on disk at the return.
RunResult(diag, err, left, f, reg, md, digest) ==
    [diag |-> diag, err |-> err, tmp |-> left, fetched |-> f.fetched,
     resolved |-> f.resolved, reg |-> reg, md |-> md, digest |-> digest]

\* The return after the push p.
RunPushed(reg, f, nb, m, p) ==
    IF p.err # ""
    THEN RunResult("OCI Push Error", p.err, (f.tmp \cup nb.tmp) \ Deferred(TRUE, TRUE),
                   f, reg, Nil, Nil)
    ELSE RunResult("", "", (f.tmp \cup nb.tmp) \ Deferred(TRUE, TRUE),
                   f, p.reg, m.md, p.digest)

\* From the result i of builder.AsImage on.
RunImaged(plan, reg, fail, f, nb, m, i) ==
    IF i.err # ""
    THEN RunResult("Image Creation Error", i.err,
                   (f.tmp \cup nb.tmp) \ Deferred(TRUE, TRUE), f, reg, Nil, Nil)
    ELSE RunPushed(reg, f, nb, m, Push(reg, plan.repository, i.img, fail))

\* From the result m of builder.GetChartMetadata on.
RunDescribed(plan, reg, fail, f, nb, m) ==
    IF m.err # ""
    THEN RunResult("Chart Metadata Error", m.err,
                   (f.tmp \cup nb.tmp) \ Deferred(TRUE, TRUE), f, reg, Nil, Nil)
    ELSE RunImaged(plan, reg, fail, f, nb, m, AsImage(m.b, f.file))

\* From the result nb of NewChartBuilder on.
RunBuilt(plan, reg, fail, f, nb) ==
    IF nb.err # ""
    THEN RunResult("APK File Error", nb.err,
                   (f.tmp \cup nb.tmp) \ Deferred(TRUE, FALSE), f, reg, Nil, Nil)
    ELSE RunDescribed(plan, reg, fail, f, nb, GetChartMetadata(nb.b, f.file))

\* From the result f of fetchAPKPackage on.
RunFetched(plan, reg, fail, f) ==
    IF f.err # ""
    THEN RunResult("APK Package Fetch Failed", f.err, f.tmp \ Deferred(FALSE, FALSE),
                   f, reg, Nil, Nil)
    ELSE RunBuilt(plan, reg, fail, f, NewChartBuilder(f.file, FALSE, fail))

\* The architecture Create and Update ask for.
ProviderArch(plan) == IF plan.package_arch = "" THEN "aarch64" ELSE plan.package_arch

ProviderRun(plan, packageRepository, repo, reg, fail) ==
    IF packageRepository = ""
    THEN [diag |-> "Missing Package Repository Configuration", err |-> "not configured",
          tmp |-> {}, fetched |-> <<>>, resolved |-> Nil, reg |-> reg, md |-> Nil,
          digest |-> Nil]
    ELSE RunFetched(plan, reg, fail,
                    FetchAPKPackage(repo, plan.package_name, plan.package_version,
                                    ProviderArch(plan), fail))

\* The state Create saves on success.
CreatedState(plan, run) ==
    [id |-> ResourceID(plan.repository, run.digest),
     repository |-> plan.repository,
     package_name |-> plan.package_name,
     package_version |-> plan.package_version,
     package_arch |-> plan.package_arch,
     digest |-> run.digest,
     name |-> run.md.name,
     version |-> run.md.version]

\* The state Update saves on success: the identifier of the prior state is
\* kept when it is not empty.
UpdatedState(plan, state, run) ==
    [CreatedState(plan, run) EXCEPT
        !.id = IF state.id # Nil THEN state.id
               ELSE ResourceID(plan.repository, run.digest)]

\* ------------------------------------------------------------------------
\* helmChartResource of the chart generation: do, Create and Update
\* ------------------------------------------------------------------------

EmptyPatches == [r \in {} |-> Nil]

\* toJsonPatch: a patch document that does not decode is an error diagnostic.
ToJsonPatch(patches) ==
    [patches |-> [r \in {r \in DOMAIN patches : patches[r].valid} |-> patches[r]],
     err |-> IF \E r \in DOMAIN patches : ~patches[r].valid
             THEN "error decoding patch" ELSE ""]

\* helmChartResource.do: [data, diag, err, fetched, resolved, reg]. data is
\* the model as do leaves it, written field by field as do goes.
DoResult(data, diag, err, b, reg) ==
    [data |-> data, diag |-> diag, err |-> err, fetched |-> b.fetched,
     resolved |-> b.resolved, reg |-> reg]

\* do from the parsed reference p on; data has the name and the version.
DoParsed(data, reg, fail, b, p) ==
    IF p.err # "" THEN DoResult(data, "parsing repository reference", p.err, b, reg)
    ELSE IF fail = "remote.Write"
    THEN DoResult(data, "pushing chart to registry", "remote.Write", b, reg)
    ELSE DoResult([data EXCEPT
                      !.digest = Digest(b.chart),
                      !.id = ResourceID(RepoString(p.ref.context, "", FALSE),
                                        Digest(b.chart))],
                  "", "", b, RemoteWrite(reg, p.ref, b.chart))

\* A do that calls the failed fetch a second time before it gives up.
DoBuiltRetrying(data, reg, fail, b) ==
    IF b.err # ""
    THEN DoResult(data, "building chart", b.err,
                  [b EXCEPT !.fetched = b.fetched \o b.fetched], reg)
    ELSE IF b.chart.metadata = Nil
    THEN DoResult(data, "panic", "panic: nil pointer dereference", b, reg)
    ELSE DoParsed([data EXCEPT !.name = b.chart.metadata.name,
                               !.chart_version = b.chart.metadata.version],
                  reg, fail, b, ParseReference(data.repo))

\* do from the result b of chart.Build on. Metadata() returns the metadata
\* of the chart, and do reads the Name of metadata that are nil.
DoBuilt(data, reg, fail, b) ==
    IF b.err # "" THEN DoResult(data, "building chart", b.err, b, reg)
    ELSE IF b.chart.metadata = Nil
    THEN DoResult(data, "panic", "panic: nil pointer dereference", b, reg)
    ELSE DoParsed([data EXCEPT !.name = b.chart.metadata.name,
                               !.chart_version = b.chart.metadata.version],
                  reg, fail, b, ParseReference(data.repo))

\* do from the result jp of toJsonPatch on; the patches decoded are those
\* the earlier chart.Build takes.
DoPatched(data, arch, repo, reg, fail, jp) ==
    IF jp.err # ""
    THEN [data |-> data, diag |-> jp.err, err |-> jp.err, fetched |-> <<>>,
          resolved |-> Nil, reg |-> reg]
    ELSE DoBuilt(data, reg, fail,
                 LegacyBuildFrom(repo, data.package_name,
                                 [arch |-> arch, patches |-> jp.patches], fail))

\* The architecture do asks chart.Build for.
DoArch(data, helmClient) ==
    IF data.package_arch = "" THEN helmClient.defaultArch ELSE data.package_arch

Do(data, helmClient, repo, reg, fail) ==
    DoPatched(data, DoArch(data, helmClient), repo, reg, fail,
              ToJsonPatch(data.json_patches))

\* ------------------------------------------------------------------------
\* Inputs: Chart.yaml documents, package layouts, the package repository
\* ------------------------------------------------------------------------

\* A Chart.yaml document with the fields given; an empty field is left out.
MkChartYaml(n, v, d, srcs, anns) ==
    OmitEmptyStr("name", n) \o OmitEmptyStr("version", v)
    \o OmitEmptyStr("description", d) \o OmitEmptySeq("sources", srcs)
    \o OmitEmptySeq("annotations", anns)

MalformedYaml == <<Tok("name", <<"basic">>), Tok("#malformed", <<>>)>>

ChartYamls ==
    {MkChartYaml(n, v, d, srcs, anns) :
        n \in {"", "basic"}, v \in {"", "1.2.3"}, d \in {"", "A basic chart"},
        srcs \in {<<>>, <<"https://src.one">>, <<"https://src.one", "https://src.two">>},
        anns \in {<<>>, <<CustomKey, "bepresent">>, <<TitleKey, "overridden">>,
                  <<CustomKey, "bepresent", TitleKey, "overridden">>}}
    \cup {MalformedYaml}

FullChartYaml ==
    MkChartYaml("basic", "1.2.3", "A basic chart",
                <<"https://src.one", "https://src.two">>, <<CustomKey, "bepresent">>)

ValuesYaml == <<Tok("#comment", <<"image settings">>), Tok("image", <<"nginx">>)>>

\* The data section of a chart package: the chart under dir (a path), with
\* apk's var/ bookkeeping beside it.
ChartData(dir, chartYaml) ==
    <<Entry(<<dir[1]>>, TypeDir, <<>>),
      Entry(dir \o <<"Chart.yaml">>, TypeReg, chartYaml),
      Entry(dir \o <<"values.yaml">>, TypeReg, ValuesYaml),
      Entry(dir \o <<"templates">>, TypeDir, <<>>),
      Entry(dir \o <<"templates", "deployment.tpl">>, TypeReg, <<Tok("kind", <<"Deployment">>)>>),
      Entry(<<"var">>, TypeDir, <<>>),
      Entry(<<"var", "lib", "db">>, TypeReg, <<Tok("db", <<"installed">>)>>)>>

\* A data section without any Chart.yaml.
PlainData ==
    <<Entry(<<"usr">>, TypeDir, <<>>),
      Entry(<<"usr", "bin", "tool">>, TypeReg, <<Tok("elf", <<"tool">>)>>)>>

\* An umbrella chart: a subchart with a Chart.yaml of its own, of another size.
UmbrellaData(chartYaml) ==
    ChartData(<<"umbrella">>, chartYaml)
    \o <<Entry(<<"umbrella", "charts", "sub", "Chart.yaml">>, TypeReg,
                MkChartYaml("sub", "", "", <<>>, <<>>))>>

\* A chart package with a file named Chart.yaml in apk's var/ bookkeeping.
VarChartData(chartYaml) ==
    ChartData(<<"basic">>, chartYaml)
    \o <<Entry(<<"var", "cache", "Chart.yaml">>, TypeReg, chartYaml)>>

\* An umbrella chart whose subchart has a Chart.yaml as long as its own.
SubChartYaml ==
    MkChartYaml("sub", "0.0.1", "A sub chart", <<"https://src.sub">>, <<CustomKey, "sub">>)

EvenUmbrellaData ==
    ChartData(<<"umbrella">>, FullChartYaml)
    \o <<Entry(<<"umbrella", "charts", "sub", "Chart.yaml">>, TypeReg, SubChartYaml)>>

\* A chart whose archive holds the entry basic/values.yaml twice.
TwiceData ==
    ChartData(<<"basic">>, FullChartYaml)
    \o <<Entry(<<"basic", "values.yaml">>, TypeReg, ValuesYaml)>>

\* The image mapping file of a chart.
\* Two images, each with the values key its reference is written to.
CgJson == <<Tok("images", <<"nginx", "image", "sidecar", "sidecar">>)>>

\* The Chart.yaml of the chart with a mapping: two custom annotations.
MappedChartYaml ==
    MkChartYaml("basic", "1.2.3", "A basic chart", <<"https://src.one">>,
                <<CustomKey, "bepresent", TitleKey, "overridden">>)

\* The image references a build is given: none, one for every image of the
\* mapping, none for the second image, one that does not parse.
ImageRefChoices ==
    {EmptyMap,
     [id \in {"nginx", "sidecar"} |->
         IF id = "nginx" THEN "cgr.dev/chainguard/nginx:1.27"
         ELSE "cgr.dev/chainguard/sidecar:2"],
     [id \in {"nginx"} |-> "cgr.dev/chainguard/nginx:1.27"],
     [id \in {"nginx", "sidecar"} |->
         IF id = "nginx" THEN "cgr.dev/chainguard/nginx:1.27" ELSE ""]}

\* A chart with its cg.json, written before Chart.yaml or after it.
MappedData(chartYaml, before) ==
    IF before
    THEN <<ChartData(<<"basic">>, chartYaml)[1],
           Entry(<<"basic", "cg.json">>, TypeReg, CgJson)>>
         \o Tail(ChartData(<<"basic">>, chartYaml))
    ELSE SubSeq(ChartData(<<"basic">>, chartYaml), 1, 2)
         \o <<Entry(<<"basic", "cg.json">>, TypeReg, CgJson)>>
         \o Tail(Tail(ChartData(<<"basic">>, chartYaml)))

Package(name, version, provides, deps, conflicts, valid, data) ==
    [name |-> name, version |-> version, provides |-> provides, deps |-> deps,
     conflicts |-> conflicts, valid |-> valid, data |-> data]

\* The package files artifacts are constructed from.
ApkFiles ==
    {Package("basic", 1, {}, {}, {}, TRUE, ChartData(dir, y)) :
        dir \in {<<"basic">>, <<"usr", "share", "basic">>}, y \in ChartYamls}
    \cup {Package("plain", 1, {}, {}, {}, TRUE, PlainData),
          Package("umbrella", 1, {}, {}, {}, TRUE, UmbrellaData(FullChartYaml)),
          Package("umbrella", 2, {}, {}, {}, TRUE, EvenUmbrellaData),
          Package("twice", 1, {}, {}, {}, TRUE, TwiceData),
          Package("varchart", 1, {}, {}, {}, TRUE, VarChartData(FullChartYaml)),
          Package("mapped", 1, {}, {}, {}, TRUE, MappedData(MappedChartYaml, FALSE)),
          Package("mapped", 2, {}, {}, {}, TRUE, MappedData(MappedChartYaml, TRUE)),
          Package("broken", 1, {}, {}, {}, FALSE, <<>>)}

\* The package repository the resource fetches from.
Catalog ==
    {Package("basic", 1, {}, {}, {}, TRUE,
             ChartData(<<"basic">>, MkChartYaml("basic", "1.0.0", "", <<>>, <<>>))),
     Package("basic", 2, {}, {"lib"}, {}, TRUE, ChartData(<<"basic">>, FullChartYaml)),
     Package("lib", 1, {}, {}, {}, TRUE, PlainData),
     Package("alias-pkg", 1, {"virtual-chart"}, {}, {}, TRUE,
             ChartData(<<"alias">>, FullChartYaml)),
     Package("clash", 1, {}, {}, {"lib"}, TRUE, ChartData(<<"clash">>, FullChartYaml)),
     Package("plain", 1, {}, {}, {}, TRUE, PlainData),
     Package("badyaml", 1, {}, {}, {}, TRUE, ChartData(<<"badyaml">>, MalformedYaml)),
     Package("umbrella", 1, {}, {}, {}, TRUE, UmbrellaData(FullChartYaml))}

\* JSON patches by the file they apply to, the path relative to the chart.
ValuesPatch ==
    [r \in {<<"values.yaml">>} |->
        [valid |-> TRUE,
         ops |-> <<[op |-> "replace", path |-> "image", value |-> <<"cgr.dev/nginx">>]>>]]

ChartPatch ==
    [r \in {<<"Chart.yaml">>} |->
        [valid |-> TRUE,
         ops |-> <<[op |-> "replace", path |-> "version", value |-> <<"9.9.9">>]>>]]

PatchChoices == {EmptyPatches, ValuesPatch, ChartPatch}

\* ------------------------------------------------------------------------
\* The states the parts of the model rest in while another part runs
\* ------------------------------------------------------------------------

Callers == {"g1", "g2"}

\* A caller outside any call.
Idle == [fn |-> "", at |-> "idle", from |-> "", tar |-> <<>>, failedBefore |-> FALSE]

EmptyRegistry == [manifests |-> {}, tags |-> [t \in {} |-> Nil]]

ImageIdle ==
    apkIn = Nil /\ artifact = Nil /\ lookup = Nil /\ again = Nil /\ digests = <<>>

PatchIdle == patIn = Nil /\ patOut = Nil

ResourceIdle ==
    /\ gen = "provider"
    /\ client = [packageRepository |-> "", defaultArch |-> ""]
    /\ registry = EmptyRegistry
    /\ tfstate = Nil
    /\ tmp = {}
    /\ nops = 0
    /\ last = Nil

BuilderIdle ==
    /\ bfile = Missing
    /\ builder = NewBuilder
    /\ pc = [p \in Callers |-> Idle]
    /\ synced = [p \in Callers |-> FALSE]
    /\ calls = [p \in Callers |-> 0]
    /\ rets = {}
    /\ bodyRuns = 0

\* ------------------------------------------------------------------------
\* SpecImage: constructing an artifact from a package file and looking its
\* layers up
\* ------------------------------------------------------------------------

\* fi.IsDir() of the path handed to NewChartBuilder.
IsDir(file) == file # Missing /\ "dir" \in DOMAIN file

\* A path at which there is a directory.
PackagesDir ==
    [name |-> "packages", version |-> 1, provides |-> {}, deps |-> {}, conflicts |-> {},
     valid |-> FALSE, data |-> <<>>, dir |-> TRUE]

InitImage ==
    /\ apkIn \in ApkFiles \cup {Missing, PackagesDir}
    /\ artifact = Nil
    /\ lookup = Nil
    /\ again = Nil
    /\ digests = <<>>
    /\ ResourceIdle
    /\ BuilderIdle
    /\ PatchIdle

\* NewChartBuilder, GetChartMetadata and AsImage, as Create chains them.
\* The field builder of the artifact tells whether a builder was returned
\* ("none" when not) and whether its Cleanup has run.
ConstructChartImage ==
    /\ artifact = Nil
    /\ \E nb \in {NewChartBuilder(apkIn, IsDir(apkIn), "")} :
          /\ tmp' = tmp \cup nb.tmp
          /\ IF nb.err # ""
             THEN artifact' = [by |-> "ChartBuilder", with |-> EmptyPatches, builder |-> "none",
                               img |-> Nil, md |-> Nil, err |-> nb.err]
             ELSE LET m == GetChartMetadata(nb.b, apkIn)
                      i == AsImage(m.b, apkIn)
                  IN artifact' =
                        IF m.err # ""
                        THEN [by |-> "ChartBuilder", with |-> EmptyPatches,
                              builder |-> "open", img |-> Nil, md |-> Nil, err |-> m.err]
                        ELSE [by |-> "ChartBuilder", with |-> EmptyPatches,
                              builder |-> "open", img |-> i.img, md |-> m.md, err |-> i.err]
    /\ UNCHANGED <<apkIn, lookup, again, digests>>
    /\ UNCHANGED <<gen, client, registry, tfstate, nops, last>>
    /\ UNCHANGED <<bldVars, patVars>>

\* ChartBuilder.Cleanup
CallCleanup ==
    /\ artifact # Nil
    /\ artifact.builder = "open"
    /\ tmp' = tmp \ {ExtractDir}
    /\ artifact' = [artifact EXCEPT !.builder = "cleaned"]
    /\ UNCHANGED <<apkIn, lookup, again, digests>>
    /\ UNCHANGED <<gen, client, registry, tfstate, nops, last>>
    /\ UNCHANGED <<bldVars, patVars>>

\* The image references tried with a package: all of them when the package
\* has a cg.json, with or without a mapping read from it; none otherwise,
\* chartify looking at the references of a chart with a mapping only.
ImageRefsFor(apk) ==
    IF \E i \in DOMAIN apk.data : apk.data[i].name[Len(apk.data[i].name)] = "cg.json"
    THEN ImageRefChoices ELSE {EmptyMap}

\* chart.Build of the package, from a repository that holds it, with a
\* patch mapping and image references; the range over the references
\* visits them in an order of this run.
ConstructChart ==
    /\ artifact = Nil
    /\ apkIn # Missing /\ ~IsDir(apkIn)
    /\ \E patches \in PatchChoices, refs \in ImageRefsFor(apkIn) :
          \E images \in Ranges(refs) :
             \E b \in {Build({apkIn}, apkIn.name,
                             [arch |-> "", patches |-> patches, images |-> images],
                             "x86_64", "")} :
                artifact' = [by |-> "chart.Build", with |-> patches,
                             images |-> refs, ranged |-> images, builder |-> "none",
                             \* the mapping of the chartData fetch handed to chartify
                             mapping |-> ScanOf(apkIn).mapping,
                             img |-> b.chart,
                             md |-> IF b.err # "" THEN Nil ELSE b.chart.metadata,
                             err |-> b.err]
    /\ UNCHANGED <<apkIn, lookup, again, digests>>
    /\ UNCHANGED <<resVars, bldVars, patVars>>

\* The earlier chart.Build of the package.
ConstructLegacyChart ==
    /\ artifact = Nil
    /\ apkIn # Missing /\ ~IsDir(apkIn)
    /\ \E patches \in PatchChoices :
          \E b \in {LegacyBuild(apkIn, patches)} :
             artifact' = [by |-> "chart.Build (earlier)", with |-> patches,
                          builder |-> "none", img |-> b.chart,
                          md |-> IF b.err # "" THEN Nil ELSE b.chart.metadata,
                          err |-> b.err]
    /\ UNCHANGED <<apkIn, lookup, again, digests>>
    /\ UNCHANGED <<resVars, bldVars, patVars>>

\* The hashes looked up: those of the artifact's layers and a foreign one.
Hashes(a) ==
    {LayerDigest(Layers(a)[1]), LayerDiffID(Layers(a)[1]), ConfigName(a), SHA256(<<>>)}

CallLayerByDigest ==
    /\ artifact # Nil
    /\ artifact.err = ""
    /\ \E h \in Hashes(artifact.img) :
          lookup' = [fn |-> "LayerByDigest", hash |-> h,
                     res |-> LayerByDigest(artifact.img, h)]
    /\ UNCHANGED <<apkIn, artifact, again, digests>>
    /\ UNCHANGED <<resVars, bldVars, patVars>>

CallLayerByDiffID ==
    /\ artifact # Nil
    /\ artifact.err = ""
    /\ \E h \in Hashes(artifact.img) :
          lookup' = [fn |-> "LayerByDiffID", hash |-> h,
                     res |-> LayerByDiffID(artifact.img, h)]
    /\ UNCHANGED <<apkIn, artifact, again, digests>>
    /\ UNCHANGED <<resVars, bldVars, patVars>>

\* The extraction directory of a second builder: os.MkdirTemp gives every
\* builder a directory of its own.
AgainExtractDir == "apk-extract dir of the second builder"

\* The same construction once more, from the same package and with the
\* same patches. Nothing of the first run is reused; the ranges over maps
\* visit their keys in an order of their own. The second builder is not
\* cleaned up.
BuildImageAgain ==
    /\ artifact # Nil /\ artifact.by = "ChartBuilder" /\ again = Nil
    /\ tmp' = tmp \cup (IF NewChartBuilder(apkIn, IsDir(apkIn), "").tmp = {} THEN {}
                        ELSE {AgainExtractDir})
    /\ LET nb == NewChartBuilder(apkIn, IsDir(apkIn), "")
           m == GetChartMetadata(nb.b, apkIn)
           i == AsImage(m.b, apkIn)
       IN IF nb.err # ""
          THEN again' = [img |-> Nil, md |-> Nil, err |-> nb.err, order |-> <<>>,
                         images |-> <<>>, raw |-> <<>>, digest |-> Nil]
          ELSE IF m.err # ""
          THEN again' = [img |-> Nil, md |-> Nil, err |-> m.err, order |-> <<>>,
                         images |-> <<>>, raw |-> <<>>, digest |-> Nil]
          ELSE IF i.err # ""
          THEN again' = [img |-> Nil, md |-> m.md, err |-> i.err, order |-> <<>>,
                         images |-> <<>>, raw |-> <<>>, digest |-> Nil]
          ELSE \E order \in Orders(JSONUnmarshal(i.img.config.uncompressed).md.annotations) :
                  \E img \in {NewChartImageIn(
                                  i.img.layer, i.img.config.uncompressed,
                                  JSONUnmarshal(i.img.config.uncompressed).md, order)} :
                     again' = [img |-> img, md |-> m.md, err |-> "", order |-> order,
                               images |-> <<>>,
                               raw |-> RawManifestIn(img, <<>>),
                               digest |-> SHA256(RawManifestIn(img, <<>>))]
    /\ UNCHANGED <<apkIn, artifact, lookup, digests>>
    /\ UNCHANGED <<gen, client, registry, tfstate, nops, last>>
    /\ UNCHANGED <<bldVars, patVars>>

\* chart.Build once more, of the same package with the same patches and
\* the same image references. Nothing of the first run is reused: the
\* range over the references visits them in an order of its own, and so
\* does the range of the RawManifest() and Digest() calls made on the chart
\* returned.
BuildChartAgain ==
    /\ artifact # Nil /\ artifact.by = "chart.Build" /\ again = Nil
    /\ \E images \in Ranges(artifact.images) :
          \E b \in {Build({apkIn}, apkIn.name,
                          [arch |-> "", patches |-> artifact.with, images |-> images],
                          "x86_64", "")} :
             IF b.err # ""
             THEN again' = [img |-> Nil, md |-> Nil, err |-> b.err, order |-> <<>>,
                            images |-> images, raw |-> <<>>, digest |-> Nil]
             ELSE \E order \in ManifestOrders(b.chart) :
                     again' = [img |-> b.chart, md |-> b.chart.metadata, err |-> "",
                               order |-> order, images |-> images,
                               raw |-> RawManifestIn(b.chart, order),
                               digest |-> SHA256(RawManifestIn(b.chart, order))]
    /\ UNCHANGED <<apkIn, artifact, lookup, digests>>
    /\ UNCHANGED <<resVars, bldVars, patVars>>

\* The calls RawManifest() and Digest() may be made on one artifact.
MaxDigestCalls == 2

\* RawManifest() and Digest() called on the artifact once more; the range
\* of each call visits in an order of its own.
CallDigest ==
    /\ artifact # Nil /\ artifact.err = "" /\ artifact.md # Nil
    /\ Len(digests) < MaxDigestCalls
    /\ \E order \in ManifestOrders(artifact.img) :
          digests' = Append(digests, [order |-> order,
                                      raw |-> RawManifestIn(artifact.img, order),
                                      digest |-> SHA256(RawManifestIn(artifact.img, order))])
    /\ UNCHANGED <<apkIn, artifact, lookup, again>>
    /\ UNCHANGED <<resVars, bldVars, patVars>>

NextImage ==
    \/ ConstructChartImage
    \/ ConstructChart
    \/ ConstructLegacyChart
    \/ BuildImageAgain
    \/ BuildChartAgain
    \/ CallDigest
    \/ CallCleanup
    \/ CallLayerByDigest
    \/ CallLayerByDiffID

SpecImage == InitImage /\ [][NextImage]_vars

\* ------------------------------------------------------------------------
\* The patch engine on its own: one target, one document, one patch
\* ------------------------------------------------------------------------

MaxPatchLen == 2

PatchTargets ==
    {<<"values.yaml">>, <<"extra.yml">>, <<"values.json">>, <<"templates", "deployment.tpl">>}

PatchDocs ==
    {<<Tok("#comment", <<"the image">>), Tok("image", <<"nginx">>),
       Tok("#comment", <<"its tag">>), Tok("tag", <<"v1.0.0">>)>>,
     <<Tok("tag", <<"v1.0.0">>), Tok("image", <<"nginx">>)>>,
     <<Tok("image", <<"nginx">>), Tok("#malformed", <<>>)>>}

PatchOperations ==
    [op : {"add", "replace", "remove"}, path : {"image", "tag", "digest"},
     value : {<<"cgr.dev/nginx">>}]

PatchSets ==
    {[valid |-> FALSE, ops |-> <<>>]}
    \cup {[valid |-> TRUE, ops |-> o] :
            o \in UNION {[1..n -> PatchOperations] : n \in 1..MaxPatchLen}}

InitPatch ==
    /\ ImageIdle /\ ResourceIdle /\ BuilderIdle
    /\ patIn \in [filename : PatchTargets, original : PatchDocs, patchOps : PatchSets]
    /\ patOut = Nil

\* patchedWith(filename, original, patchOps)
CallPatchedWith ==
    /\ patOut = Nil
    /\ \E r \in {PatchedWith(patIn.filename, patIn.original, patIn.patchOps)} :
           patOut' = [by |-> "patchedWith", content |-> r.content, err |-> r.err]
    /\ UNCHANGED patIn
    /\ UNCHANGED <<imgVars, resVars, bldVars>>

\* The message of an error, as the parts it is made of in their order. A
\* part is a sequence of segments: a text is one segment, a path is its
\* segments.
\* Build's "failed to build chart layer: %w" around chartify's "error
\* applying patch to file %s: %w" with rel, around the error r.err of
\* patchedWith.
PatchStepMessage(rel, r) ==
    IF r.err = "" THEN <<>>
    ELSE <<<<"failed to build chart layer">>, <<"error applying patch to file">>,
           rel, <<r.err>>>>

\* Build's "failed to build chart layer: %w" around the error of the
\* earlier chartify, which formats no path.
LegacyPatchMessage(r) ==
    IF r.err = "" THEN <<>> ELSE <<<<"failed to build chart layer">>, <<r.err>>>>

\* The diagnostic of toJsonPatch: the summary and, as detail, the error of
\* jsonpatch.DecodePatch.
ToJsonPatchMessage(jp) ==
    IF jp.err = "" THEN <<>> ELSE <<<<jp.err>>, <<"invalid JSON patch">>>>

\* chart.Build reaching the target in chartify with the patch registered
\* for it: the patch step and the error as Build returns it.
CallPatchStep ==
    /\ patOut = Nil
    /\ \E r \in {PatchStep(patIn.filename, patIn.original,
                            [f \in {patIn.filename} |-> patIn.patchOps])} :
           patOut' = [by |-> "chart.chartify", content |-> r.content, err |-> r.err,
                      msg |-> PatchStepMessage(patIn.filename, r)]
    /\ UNCHANGED patIn
    /\ UNCHANGED <<imgVars, resVars, bldVars>>

\* The patch step of the earlier chartify; the patch it is handed has been
\* decoded by the caller.
CallLegacyPatch ==
    /\ patOut = Nil
    /\ patIn.patchOps.valid
    /\ \E r \in {LegacyPatched(patIn.filename, patIn.original, patIn.patchOps)} :
           patOut' = [by |-> "chartify", content |-> r.content, err |-> r.err,
                      msg |-> LegacyPatchMessage(r)]
    /\ UNCHANGED patIn
    /\ UNCHANGED <<imgVars, resVars, bldVars>>

\* helmChartResource.do with a patch for the target that does not decode:
\* toJsonPatch reports it and do returns before anything is built.
CallToJsonPatch ==
    /\ patOut = Nil
    /\ ~patIn.patchOps.valid
    /\ \E jp \in {ToJsonPatch([f \in {patIn.filename} |-> patIn.patchOps])} :
           patOut' = [by |-> "toJsonPatch", content |-> <<>>, err |-> jp.err,
                      msg |-> ToJsonPatchMessage(jp)]
    /\ UNCHANGED patIn
    /\ UNCHANGED <<imgVars, resVars, bldVars>>

NextPatch ==
    \/ CallPatchedWith
    \/ CallPatchStep
    \/ CallLegacyPatch
    \/ CallToJsonPatch

SpecPatch == InitPatch /\ [][NextPatch]_vars

\* ------------------------------------------------------------------------
\* Spec: the helm_chart resource under Terraform's lifecycle
\* ------------------------------------------------------------------------

MaxOps == 2

Unknown == "(unknown)"

PackageNames == {"basic", "virtual-chart", "clash", "plain", "badyaml", "umbrella", "ghost"}
PackageVersions == {NoVersion, 1, 3}
PackageArchs == {"", "x86_64"}
Repositories == {RepoString("ttl.sh/charts", "", FALSE), RepoString("", "", TRUE)}

\* The external calls that can be made to fail, "" for none.
ProviderFailPoints ==
    {"", "MkdirTemp", "build.New", "ResolveWorld", "FetchPackage", "CreateTemp", "Copy",
     "builder.MkdirTemp", "remote.Write"}
ChartFailPoints == {"", "build.New", "ResolveWorld", "FetchPackage", "remote.Write"}

ProviderPlans ==
    [repository : Repositories, package_name : PackageNames,
     package_version : PackageVersions, package_arch : PackageArchs]

\* A plan of the chart generation; the computed attributes are unknown
\* unless known (the state's value, on an update).
ChartPlans(known) ==
    {[id |-> known.id, repo |-> r, package_name |-> n, package_version |-> v,
      package_arch |-> a, digest |-> known.digest, name |-> known.name,
      chart_version |-> known.chart_version, json_patches |-> jp] :
        r \in Repositories, n \in PackageNames, v \in PackageVersions,
        a \in PackageArchs, jp \in {EmptyPatches, ValuesPatch}}

NothingKnown == [id |-> Nil, digest |-> Nil, name |-> Unknown, chart_version |-> Unknown]

Init ==
    /\ gen \in {"provider", "chart"}
    /\ client \in
          IF gen = "provider"
          THEN {[packageRepository |-> r, defaultArch |-> ""] :
                   r \in {"", "https://apk.cgr.dev/chainguard"}}
          ELSE {[packageRepository |-> "", defaultArch |-> a] : a \in {"", "aarch64"}}
    /\ registry = EmptyRegistry
    /\ tfstate = Nil
    /\ tmp = {}
    /\ nops = 0
    /\ last = Nil
    /\ ImageIdle
    /\ BuilderIdle
    /\ PatchIdle

\* What an operation leaves in last.
Record(op, plan, fail, run, arch) ==
    [op |-> op, plan |-> plan, fail |-> fail, diag |-> run.diag, err |-> run.err,
     fetched |-> run.fetched, resolved |-> run.resolved, arch |-> arch,
     tagsBefore |-> DOMAIN registry.tags]

\* The architecture chart.Build resolves for.
ChartArch(plan) ==
    LegacyBuildContext(plan.package_name, [arch |-> DoArch(plan, client)]).arch

\* helmChartResource.Create of the provider generation: the state is saved
\* on success only.
CreateProvider ==
    /\ gen = "provider" /\ nops < MaxOps /\ tfstate = Nil
    /\ \E plan \in ProviderPlans, fail \in ProviderFailPoints :
          \E run \in {ProviderRun(plan, client.packageRepository, Catalog, registry, fail)} :
             /\ registry' = run.reg
             /\ tmp' = tmp \cup run.tmp
             /\ tfstate' = IF run.diag = ""
                            THEN [model |-> CreatedState(plan, run), tainted |-> FALSE]
                            ELSE tfstate
             /\ last' = Record("Create", plan, fail, run, ProviderArch(plan))
    /\ nops' = nops + 1
    /\ UNCHANGED <<gen, client>>
    /\ UNCHANGED <<imgVars, bldVars, patVars>>

\* helmChartResource.Update of the provider generation.
UpdateProvider ==
    /\ gen = "provider" /\ nops < MaxOps /\ tfstate # Nil
    /\ \E plan \in ProviderPlans, fail \in ProviderFailPoints :
          \E run \in {ProviderRun(plan, client.packageRepository, Catalog, registry, fail)} :
             /\ registry' = run.reg
             /\ tmp' = tmp \cup run.tmp
             /\ tfstate' = IF run.diag = ""
                            THEN [model |-> UpdatedState(plan, tfstate.model, run),
                                  tainted |-> FALSE]
                            ELSE tfstate
             /\ last' = Record("Update", plan, fail, run, ProviderArch(plan))
    /\ nops' = nops + 1
    /\ UNCHANGED <<gen, client>>
    /\ UNCHANGED <<imgVars, bldVars, patVars>>

\* A handler that panicked never reaches resp.State.Set.
Panicked(run) == run.err = "panic: nil pointer dereference"

\* helmChartResource.Create of the chart generation: the state is set to
\* the model as do left it, whatever do returned; Terraform taints a
\* resource whose creation returned an error.
CreateChart ==
    /\ gen = "chart" /\ nops < MaxOps
    /\ IF tfstate = Nil THEN TRUE ELSE tfstate.tainted
    /\ \E plan \in ChartPlans(NothingKnown), fail \in ChartFailPoints :
          \E run \in {Do(plan, client, Catalog, registry, fail)} :
             /\ registry' = run.reg
             /\ tfstate' = IF Panicked(run) THEN tfstate
                            ELSE [model |-> run.data, tainted |-> run.diag # ""]
             /\ last' = Record("Create", plan, fail, run, ChartArch(plan))
    /\ nops' = nops + 1
    /\ UNCHANGED <<gen, client, tmp>>
    /\ UNCHANGED <<imgVars, bldVars, patVars>>

\* helmChartResource.Update of the chart generation.
UpdateChart ==
    /\ gen = "chart" /\ nops < MaxOps
    /\ tfstate # Nil /\ ~tfstate.tainted
    /\ \E plan \in ChartPlans(tfstate.model), fail \in ChartFailPoints :
          \E run \in {Do(plan, client, Catalog, registry, fail)} :
             /\ registry' = run.reg
             /\ tfstate' = IF Panicked(run) THEN tfstate
                            ELSE [model |-> run.data, tainted |-> FALSE]
             /\ last' = Record("Update", plan, fail, run, ChartArch(plan))
    /\ nops' = nops + 1
    /\ UNCHANGED <<gen, client, tmp>>
    /\ UNCHANGED <<imgVars, bldVars, patVars>>

\* helmChartResource.Read of both generations: the state read from the
\* request is set on the response as it is.
Read ==
    /\ nops < MaxOps /\ tfstate # Nil
    /\ tfstate' = tfstate
    /\ nops' = nops + 1
    /\ UNCHANGED <<gen, client, registry, tmp, last>>
    /\ UNCHANGED <<imgVars, bldVars, patVars>>

\* helmChartResource.Delete of both generations: nothing is done to the
\* registry, and Terraform removes the state of a Delete without error.
Delete ==
    /\ nops < MaxOps /\ tfstate # Nil
    /\ tfstate' = Nil
    /\ nops' = nops + 1
    /\ UNCHANGED <<gen, client, registry, tmp, last>>
    /\ UNCHANGED <<imgVars, bldVars, patVars>>

\* The identifiers a resource is imported with.
ImportIDs == {ResourceID(RepoString("ttl.sh/charts", "", FALSE), SHA256(<<>>))}

\* The state resource.ImportStatePassthroughID makes: the identifier given,
\* every other attribute null (the empty string, as ValueString reads it).
ImportedState(id) ==
    [id |-> id, repository |-> RepoString("", "", TRUE), package_name |-> "",
     package_version |-> NoVersion, package_arch |-> "", digest |-> Nil,
     name |-> "", version |-> ""]

\* helmChartResource.ImportState of the provider generation.
ImportState ==
    /\ gen = "provider" /\ nops < MaxOps /\ tfstate = Nil
    /\ \E id \in ImportIDs : tfstate' = [model |-> ImportedState(id), tainted |-> FALSE]
    /\ nops' = nops + 1
    /\ UNCHANGED <<gen, client, registry, tmp, last>>
    /\ UNCHANGED <<imgVars, bldVars, patVars>>

Next ==
    \/ CreateProvider
    \/ UpdateProvider
    \/ CreateChart
    \/ UpdateChart
    \/ Read
    \/ Delete
    \/ ImportState

Spec == Init /\ [][Next]_vars

\* ------------------------------------------------------------------------
\* SpecBuilder: concurrent callers of GetChartMetadata and AsImage on one
\* ChartBuilder, one step per access to the builder's fields
\* ------------------------------------------------------------------------

MaxCalls == 2

BuilderFiles ==
    {Missing,
     Package("broken", 1, {}, {}, {}, FALSE, <<>>),
     Package("plain", 1, {}, {}, {}, TRUE, PlainData),
     Package("basic", 1, {}, {}, {}, TRUE, ChartData(<<"basic">>, FullChartYaml)),
     Package("badyaml", 1, {}, {}, {}, TRUE, ChartData(<<"badyaml">>, MalformedYaml)),
     Package("umbrella", 1, {}, {}, {}, TRUE, UmbrellaData(FullChartYaml))}

InitBuilder ==
    /\ bfile \in BuilderFiles
    /\ builder = NewBuilder
    /\ pc = [p \in Callers |-> Idle]
    /\ synced = [p \in Callers |-> FALSE]
    /\ calls = [p \in Callers |-> 0]
    /\ rets = {}
    /\ bodyRuns = 0
    /\ ImageIdle
    /\ ResourceIdle
    /\ PatchIdle

\* c.metadata and c.chartYaml are read without holding anything: a caller
\* that has not passed once.Do since the body ended may still see the value
\* the field had at construction.
SeenMetadata(p) == IF synced[p] THEN {builder.metadata} ELSE {builder.metadata, Nil}
SeenChartYaml(p) == IF synced[p] THEN {builder.chartYaml} ELSE {builder.chartYaml, <<>>}

\* Has the initialization ended, and with which outcome.
InitFailed == builder.once = "done" /\ builder.chartYamlErr # ""
InitSucceeded == builder.once = "done" /\ builder.chartYamlErr = ""

\* The caller's return of (value, err).
Return(p, value, err) ==
    /\ rets' = rets \cup {[caller |-> p, fn |-> pc[p].fn, value |-> value, err |-> err,
                            failedBefore |-> pc[p].failedBefore,
                            initSucceeded |-> InitSucceeded]}
    /\ pc' = [pc EXCEPT ![p] = Idle]

\* The caller goes on after "if c.metadata == nil { findChartYaml }".
Proceed(p) ==
    /\ pc' = [pc EXCEPT ![p] =
                 IF pc[p].from = "layer" THEN [pc[p] EXCEPT !.at = "layer"]
                 ELSE IF pc[p].fn = "GetChartMetadata" THEN [pc[p] EXCEPT !.at = "return"]
                 ELSE [pc[p] EXCEPT !.at = "check", !.from = "layer"]]
    /\ UNCHANGED rets

\* findChartYaml returned err to the caller's check.
AfterFind(p, err) ==
    IF err = "" THEN Proceed(p)
    ELSE IF pc[p].from = "layer" THEN Return(p, Nil, "failed to build chart layer")
    ELSE Return(p, Nil, err)

\* A caller starts GetChartMetadata or AsImage.
Call(p) ==
    /\ pc[p].at = "idle" /\ calls[p] < MaxCalls
    /\ \E fn \in {"GetChartMetadata", "AsImage"} :
          pc' = [pc EXCEPT ![p] = [fn |-> fn, at |-> "check", from |-> "call",
                                   tar |-> <<>>, failedBefore |-> InitFailed]]
    /\ calls' = [calls EXCEPT ![p] = @ + 1]
    /\ UNCHANGED <<bfile, builder, synced, rets, bodyRuns>>
    /\ UNCHANGED <<imgVars, resVars, patVars>>

\* if c.metadata == nil
CheckMetadata(p) ==
    /\ pc[p].at = "check"
    /\ \E m \in SeenMetadata(p) :
          IF m = Nil THEN pc' = [pc EXCEPT ![p].at = "do"] /\ UNCHANGED rets
          ELSE Proceed(p)
    /\ UNCHANGED <<bfile, builder, synced, calls, bodyRuns>>
    /\ UNCHANGED <<imgVars, resVars, patVars>>

\* c.once.Do(f), the first caller: it runs f.
OnceEnter(p) ==
    /\ pc[p].at = "do" /\ builder.once = "idle"
    /\ builder' = [builder EXCEPT !.once = "running"]
    /\ bodyRuns' = bodyRuns + 1
    /\ pc' = [pc EXCEPT ![p].at = "scan"]
    /\ UNCHANGED <<bfile, synced, calls, rets>>
    /\ UNCHANGED <<imgVars, resVars, patVars>>

\* c.once.Do(f) once f has returned: f is not run, c.chartYamlErr is returned.
\* While f runs the caller waits.
OncePass(p) ==
    /\ pc[p].at = "do" /\ builder.once = "done"
    /\ synced' = [synced EXCEPT ![p] = TRUE]
    /\ AfterFind(p, builder.chartYamlErr)
    /\ UNCHANGED <<bfile, builder, calls, bodyRuns>>
    /\ UNCHANGED <<imgVars, resVars, patVars>>

BodyScan(p) ==
    /\ pc[p].at = "scan"
    /\ builder' = BodyScanned(builder, bfile)
    /\ pc' = [pc EXCEPT ![p].at =
                 IF BodyScanned(builder, bfile).chartYamlErr # "" THEN "exit" ELSE "alloc"]
    /\ UNCHANGED <<bfile, synced, calls, rets, bodyRuns>>
    /\ UNCHANGED <<imgVars, resVars, patVars>>

BodyAlloc(p) ==
    /\ pc[p].at = "alloc"
    /\ builder' = BodyAllocated(builder)
    /\ pc' = [pc EXCEPT ![p].at = "parse"]
    /\ UNCHANGED <<bfile, synced, calls, rets, bodyRuns>>
    /\ UNCHANGED <<imgVars, resVars, patVars>>

BodyParse(p) ==
    /\ pc[p].at = "parse"
    /\ builder' = BodyParsed(builder)
    /\ pc' = [pc EXCEPT ![p].at = "exit"]
    /\ UNCHANGED <<bfile, synced, calls, rets, bodyRuns>>
    /\ UNCHANGED <<imgVars, resVars, patVars>>

\* f returns: once.Do is over, and findChartYaml returns c.chartYamlErr.
BodyExit(p) ==
    /\ pc[p].at = "exit"
    /\ builder' = [builder EXCEPT !.once = "done"]
    /\ synced' = [synced EXCEPT ![p] = TRUE]
    /\ AfterFind(p, builder.chartYamlErr)
    /\ UNCHANGED <<bfile, calls, bodyRuns>>
    /\ UNCHANGED <<imgVars, resVars, patVars>>

\* return c.metadata, nil
ReturnMetadata(p) ==
    /\ pc[p].at = "return"
    /\ \E m \in SeenMetadata(p) : Return(p, m, "")
    /\ UNCHANGED <<bfile, builder, synced, calls, bodyRuns>>
    /\ UNCHANGED <<imgVars, resVars, patVars>>

\* buildChartLayer after its check: the file is read again and the layer
\* written, with the c.chartYaml the caller sees.
LayerBuild(p) ==
    /\ pc[p].at = "layer"
    /\ \E y \in SeenChartYaml(p) :
          IF LayerFrom(bfile, y).err # ""
          THEN Return(p, Nil, "failed to build chart layer")
          ELSE /\ pc' = [pc EXCEPT ![p].at = "config", ![p].tar = LayerFrom(bfile, y).tar]
               /\ UNCHANGED rets
    /\ UNCHANGED <<bfile, builder, synced, calls, bodyRuns>>
    /\ UNCHANGED <<imgVars, resVars, patVars>>

\* ChartYAMLToConfig(c.chartYaml) and NewChartImage.
ImageConfig(p) ==
    /\ pc[p].at = "config"
    /\ \E y \in SeenChartYaml(p) :
          Return(p, ImageFrom(pc[p].tar, ChartYAMLToConfig(y)).img,
                 ImageFrom(pc[p].tar, ChartYAMLToConfig(y)).err)
    /\ UNCHANGED <<bfile, builder, synced, calls, bodyRuns>>
    /\ UNCHANGED <<imgVars, resVars, patVars>>

NextBuilder ==
    \E p \in Callers :
        \/ Call(p)
        \/ CheckMetadata(p)
        \/ OnceEnter(p)
        \/ OncePass(p)
        \/ BodyScan(p)
        \/ BodyAlloc(p)
        \/ BodyParse(p)
        \/ BodyExit(p)
        \/ ReturnMetadata(p)
        \/ LayerBuild(p)
        \/ ImageConfig(p)

SpecBuilder == InitBuilder /\ [][NextBuilder]_vars

\* ------------------------------------------------------------------------
\* Properties
\* ------------------------------------------------------------------------

\* The packages of the repository a query for name at version may take.
Available(name, version) ==
    {q \in Catalog : q.name = name /\ (version = NoVersion \/ q.version = version)}

\* C1: a package that is fetched has the version the plan specifies, or the
\* highest available version when the plan specifies none; a specified
\* version that is not available makes the operation fail.
C1_VersionResolved ==
    last # Nil =>
        /\ \A i \in DOMAIN last.fetched :
              last.fetched[i] # Nil =>
                  /\ last.fetched[i] \in
                        Available(last.plan.package_name, last.plan.package_version)
                  /\ \A q \in Available(last.plan.package_name, last.plan.package_version) :
                        q.version <= last.fetched[i].version
        /\ (/\ last.plan.package_version # NoVersion
            /\ Available(last.plan.package_name, last.plan.package_version) = {})
           => last.diag # ""

\* C2: the push is by digest only: no operation adds a tag to the registry.
C2_DigestOnly == DOMAIN registry.tags = DOMAIN EmptyRegistry.tags

\* C3: when Create or Update has returned, by whatever path, none of the
\* temporary resources it allocated is left.
C3_TempRemoved == tmp = {}

\* C4: when the resolution reports conflicts, the operation fails with the
\* error "package conflicts detected" and FetchPackage is not called.
C4_ConflictsBlockFetch ==
    (last # Nil /\ last.resolved # Nil /\ last.resolved.conflicts # {}) =>
        /\ last.diag # ""
        /\ last.err = "package conflicts detected"
        /\ last.fetched = <<>>

\* An operation whose resolution reported conflicts has returned.
C4_Witness ==
    /\ last # Nil /\ last.resolved # Nil
    /\ last.resolved.conflicts # {}
    /\ last.resolved.pkgs # <<>>
    /\ last.err = "package conflicts detected"

\* C5: after a successful resolution FetchPackage is called only with the
\* first resolved entry named as the query, and when there is no such entry
\* the operation fails without attempting a download.
C5_FetchNamedEntry ==
    (last # Nil /\ last.resolved # Nil /\ last.resolved.err = "") =>
        /\ \A i \in DOMAIN last.fetched :
              /\ last.fetched[i] # Nil
              /\ last.fetched[i].name = last.plan.package_name
              /\ last.fetched[i] = FirstNamed(last.resolved.pkgs, last.plan.package_name)
        /\ FirstNamed(last.resolved.pkgs, last.plan.package_name) = Nil
           => (last.fetched = <<>> /\ last.diag # "")

\* C6: once the initialization has failed, every call of GetChartMetadata or
\* AsImage started afterwards returns an error.
C6_FirstErrorKept == \A r \in rets : r.failedBefore => r.err # ""

\* C7: the body of the initialization is entered at most once, and no
\* GetChartMetadata returns a metadata with a nil error unless the
\* initialization has ended successfully.
C7_NoPartialMetadata ==
    /\ bodyRuns <= 1
    /\ \A r \in rets :
          (r.fn = "GetChartMetadata" /\ r.err = "" /\ r.value # Nil) => r.initSucceeded

\* C8: LayerByDigest and LayerByDiffID return the content layer for its hash,
\* the configuration layer for its hash, and not-found for any other hash.
C8_LayerLookup ==
    (artifact # Nil /\ artifact.err = "" /\ lookup # Nil) =>
        lookup.res =
            IF lookup.hash = (IF lookup.fn = "LayerByDigest"
                              THEN LayerDigest(Layers(artifact.img)[1])
                              ELSE LayerDiffID(Layers(artifact.img)[1]))
            THEN [layer |-> Layers(artifact.img)[1], err |-> ""]
            ELSE IF lookup.hash = SHA256(RawConfigFile(artifact.img))
            THEN [layer |-> StaticLayer(RawConfigFile(artifact.img), ConfigMediaType),
                  err |-> ""]
            ELSE NotFound

\* C9: the manifest's configuration descriptor has the SHA-256 and the
\* length of RawConfigFile(), ConfigName() is that hash, and the bytes are
\* the JSON serialization of the chart's metadata.
C9_ConfigDescriptor ==
    (artifact # Nil /\ artifact.err = "") =>
        /\ Manifest(artifact.img).config.digest = SHA256(RawConfigFile(artifact.img))
        /\ ConfigName(artifact.img) = SHA256(RawConfigFile(artifact.img))
        /\ Manifest(artifact.img).config.size = Len(RawConfigFile(artifact.img))
        /\ RawConfigFile(artifact.img) = JSONMarshal(artifact.md)

\* A chart artifact with a configuration that is not empty has been built.
C9_Witness ==
    /\ artifact # Nil /\ artifact.err = ""
    /\ artifact.img.kind = "chart"
    /\ Len(RawConfigFile(artifact.img)) >= 2

\* C10: the manifest has schema version 2, the OCI manifest media type, a
\* Helm configuration descriptor and exactly one layer descriptor, of the
\* Helm chart content media type and of the digest of the one layer Layers()
\* returns.
C10_ManifestShape ==
    (artifact # Nil /\ artifact.err = "") =>
        /\ Manifest(artifact.img).schemaVersion = 2
        /\ Manifest(artifact.img).mediaType = "application/vnd.oci.image.manifest.v1+json"
        /\ Manifest(artifact.img).config.mediaType
              = "application/vnd.cncf.helm.config.v1+json"
        /\ Len(Manifest(artifact.img).layers) = 1
        /\ Manifest(artifact.img).layers[1].mediaType
              = "application/vnd.cncf.helm.chart.content.v1.tar+gzip"
        /\ Len(Layers(artifact.img)) = 1
        /\ Manifest(artifact.img).layers[1].digest = LayerDigest(Layers(artifact.img)[1])

\* A ChartImage whose layer holds a chart has been built.
C10_Witness ==
    /\ artifact # Nil /\ artifact.err = ""
    /\ artifact.img.kind = "ChartImage"
    /\ Len(Layers(artifact.img)[1].uncompressed) >= 2

\* The keys of the standard annotations, and the metadata field each is
\* derived from: is the field set.
StandardKeys == {TitleKey, VersionKey, DescriptionKey, SourceKey}

FieldSet(md, k) ==
    IF k = TitleKey THEN md.name # ""
    ELSE IF k = VersionKey THEN md.version # ""
    ELSE IF k = DescriptionKey THEN md.description # ""
    ELSE md.sources # <<>>

\* An artifact has been built without an error.
Built == artifact # Nil /\ artifact.err = ""

\* C11: a standard annotation derived from a field of the chart's metadata
\* has the derived value in the manifest, also when the metadata's own
\* annotations hold the same key with another value.
C11_CustomNeverOverrides ==
    Built =>
        /\ artifact.md.name # "" =>
              /\ TitleKey \in DOMAIN Manifest(artifact.img).annotations
              /\ Manifest(artifact.img).annotations[TitleKey] = <<artifact.md.name>>
        /\ artifact.md.version # "" =>
              /\ VersionKey \in DOMAIN Manifest(artifact.img).annotations
              /\ Manifest(artifact.img).annotations[VersionKey] = <<artifact.md.version>>
        /\ artifact.md.description # "" =>
              /\ DescriptionKey \in DOMAIN Manifest(artifact.img).annotations
              /\ Manifest(artifact.img).annotations[DescriptionKey]
                    = <<artifact.md.description>>
        /\ artifact.md.sources # <<>> =>
              /\ SourceKey \in DOMAIN Manifest(artifact.img).annotations
              /\ \A i \in DOMAIN Manifest(artifact.img).annotations[SourceKey] :
                    \E j \in DOMAIN artifact.md.sources :
                        Manifest(artifact.img).annotations[SourceKey][i]
                            = artifact.md.sources[j]

\* C12: every annotation of the chart's metadata under a key that is not a
\* standard one is in the manifest's annotations and in the metadata the
\* artifact returns, with its value.
C12_CustomKept ==
    Built =>
        \A i \in 1..Len(apkIn.data) :
            (/\ apkIn.data[i].typeflag = TypeReg
             /\ HasChartYamlSuffix(apkIn.data[i].name)
             /\ \A j \in 1..(i - 1) : ~HasChartYamlSuffix(apkIn.data[j].name)) =>
                \A n \in 1..Len(TokValue(apkIn.data[i].content, "annotations")) :
                    (n % 2 = 1
                     /\ TokValue(apkIn.data[i].content, "annotations")[n] \notin StandardKeys) =>
                        /\ TokValue(apkIn.data[i].content, "annotations")[n]
                              \in DOMAIN Manifest(artifact.img).annotations
                        /\ Manifest(artifact.img).annotations[
                               TokValue(apkIn.data[i].content, "annotations")[n]]
                              = <<TokValue(apkIn.data[i].content, "annotations")[n + 1]>>
                        /\ TokValue(apkIn.data[i].content, "annotations")[n]
                              \in DOMAIN artifact.md.annotations
                        /\ artifact.md.annotations[
                               TokValue(apkIn.data[i].content, "annotations")[n]]
                              = TokValue(apkIn.data[i].content, "annotations")[n + 1]

\* A ChartImage has been built from a chart with a custom annotation.
C12_Witness ==
    /\ Built
    /\ artifact.img.kind = "ChartImage"
    /\ CustomKey \in DOMAIN artifact.md.annotations
    /\ artifact.md.name # ""

\* C13: the manifest has a standard annotation exactly when the field of
\* the metadata it is derived from is not empty. (A key the metadata's own
\* annotations supply is left to C11 and C12.)
C13_StandardIffField ==
    Built =>
        \A k \in StandardKeys \ DOMAIN artifact.md.annotations :
            (k \in DOMAIN Manifest(artifact.img).annotations) <=> FieldSet(artifact.md, k)

\* C14: when the metadata lists sources, the source annotation is the first
\* of them.
C14_FirstSource ==
    (Built /\ artifact.md.sources # <<>>) =>
        /\ SourceKey \in DOMAIN Manifest(artifact.img).annotations
        /\ Manifest(artifact.img).annotations[SourceKey] = <<artifact.md.sources[1]>>

TopLevelChartYamls(entries) ==
    {i \in DOMAIN entries :
        /\ entries[i].typeflag = TypeReg
        /\ Len(entries[i].name) = 2
        /\ entries[i].name[2] = "Chart.yaml"}

ChartNotFoundErrors ==
    {"failed: Chart.yaml not found in APK package", "package is missing Chart.yaml"}

\* C16: only an entry <dir>/Chart.yaml with <dir> free of separators
\* establishes the chart root. A construction from a package without such
\* an entry fails with a chart-not-found error and yields no artifact; the
\* metadata of a built artifact carry the name a top-level Chart.yaml gives.
C16_TopLevelRootOnly ==
    (artifact # Nil /\ apkIn # Missing /\ apkIn.valid) =>
        /\ TopLevelChartYamls(apkIn.data) = {} =>
              (artifact.err \in ChartNotFoundErrors /\ artifact.img = Nil)
        /\ Built =>
              \E i \in TopLevelChartYamls(apkIn.data) :
                  artifact.md.name = DecodeMetadata(apkIn.data[i].content).name

\* The patch of the call decodes and its operations apply to the document.
PatchApplies ==
    /\ patIn.patchOps.valid
    /\ ~IsMalformed(patIn.original)
    /\ ApplyOps(patIn.original, patIn.patchOps.ops).err = ""

HasComments(doc) == \E i \in 1..Len(doc) : IsComment(doc[i])

\* C17: a target whose path ends in .yaml or .yml is patched with the
\* structure-preserving strategy, the operations applied in place on the
\* original text; every other target is patched as JSON on its raw bytes,
\* so that bytes which are not JSON (a document with comments) are refused.
C17_StrategyByExtension ==
    (patOut # Nil /\ PatchApplies) =>
        IF IsYamlPath(patIn.filename) \/ ~HasComments(patIn.original)
        THEN /\ patOut.err = ""
             /\ patOut.content = ApplyOps(patIn.original, patIn.patchOps.ops).doc
        ELSE patOut.err # ""

\* The keys the operations of the call address.
Addressed == {patIn.patchOps.ops[i].path : i \in DOMAIN patIn.patchOps.ops}

Unaffected(doc) == SelectSeq(doc, LAMBDA t : t.k \notin Addressed)

\* The values of a document by key.
ValuesOf(doc) ==
    [k \in {doc[i].k : i \in {j \in DOMAIN doc : ~IsComment(doc[j])}} |-> TokValue(doc, k)]

\* C18: a patch applied to a YAML file leaves the nodes it does not address
\* as they were, comments included and in their order; the same operations
\* applied to the JSON encoding of the document give the same values.
C18_YamlPatchPreserves ==
    (patOut # Nil /\ patOut.err = "" /\ IsYamlPath(patIn.filename)) =>
        /\ Unaffected(patOut.content) = Unaffected(patIn.original)
        /\ \E j \in {PatchedWith(<<"values.json">>,
                                 SelectSeq(patIn.original, LAMBDA t : ~IsComment(t)),
                                 patIn.patchOps)} :
               j.err = "" /\ ValuesOf(j.content) = ValuesOf(patOut.content)

\* A build has come to the patch of the target.
PatchReached == patOut # Nil /\ patOut.by # "patchedWith"

\* C19: a patch that does not decode or does not apply makes the build fail,
\* nothing being returned for the file, and the message of the error holds
\* the relative path of the file.
C19_PatchFailureNamesFile ==
    PatchReached =>
        /\ (~patIn.patchOps.valid \/ IsMalformed(patIn.original)
              \/ ApplyOps(patIn.original, patIn.patchOps.ops).err # "") => patOut.err # ""
        /\ patOut.err # "" =>
              /\ patOut.content = <<>>
              /\ \E i \in DOMAIN patOut.msg : patOut.msg[i] = patIn.filename

\* The names of the entries of a tar archive.
EntryNames(tarBytes) ==
    {tarBytes[i].v : i \in {j \in DOMAIN tarBytes : tarBytes[j].k \in {"tar.reg", "tar.dir"}}}

\* The paths, relative to the chart root, of the entries of a data section
\* that lie under it.
UnderRoot(entries, root) ==
    {Tail(entries[i].name) : i \in {j \in DOMAIN entries : entries[j].name[1] = root}}

\* C20: the content layer of an artifact built from a package with a chart
\* root holds only entries that lay under <chart-root>/ in the package, each
\* under its path relative to the chart root, the chart descriptor being at
\* Chart.yaml.
C20_ReRooted ==
    (Built /\ TopLevelChartYamls(apkIn.data) # {}) =>
        \E i \in TopLevelChartYamls(apkIn.data) :
            /\ EntryNames(Layers(artifact.img)[1].uncompressed)
                  \subseteq UnderRoot(apkIn.data, apkIn.data[i].name[1])
            /\ <<"Chart.yaml">> \in EntryNames(Layers(artifact.img)[1].uncompressed)

\* C21: no entry of the package under var or var/ is in the content layer
\* of a built artifact, whatever the entry's file name.
C21_VarExcluded ==
    Built =>
        \A n \in EntryNames(Layers(artifact.img)[1].uncompressed) :
            n = <<>> \/ n[1] # "var"

\* The fallback the README documents.
DocumentedArch == "x86_64"

\* C22: an operation resolves for the resource's package_arch when it is
\* set, else for the provider's default_arch when it is set, else for the
\* documented fallback, whatever machine the provider runs on.
C22_ArchHierarchy ==
    last # Nil =>
        last.arch = IF last.plan.package_arch # "" THEN last.plan.package_arch
                    ELSE IF client.defaultArch # "" THEN client.defaultArch
                    ELSE DocumentedArch

\* C23: an operation that ends in an error leaves the registry as it was,
\* has called FetchPackage at most once, and has not called it at all when
\* the resolution did not succeed; so the registry changes only in an
\* operation without an error.
C23_ErrorsTerminal ==
    [][(nops' = nops + 1 /\ last' # Nil /\ last'.err # "") =>
          /\ registry' = registry
          /\ Len(last'.fetched) <= 1
          /\ (last'.resolved = Nil \/ last'.fetched = <<>>
                 \/ (last'.resolved.err = "" /\ last'.resolved.conflicts = {}))]_vars

\* After a successful push, an operation has failed in the layer building,
\* its package fetched.
C23_Witness ==
    /\ last # Nil
    /\ last.err = "failed to build chart layer"
    /\ Len(last.fetched) = 1
    /\ registry.manifests # {}

\* C24: NewChartBuilder on a path that does not exist, or at which there
\* is a directory, returns its error and no builder and makes no extraction
\* directory; on success there is exactly the one extraction directory
\* until Cleanup has removed it, and a second builder has one of its own.
C24_BuilderConstruction ==
    (artifact # Nil /\ artifact.by = "ChartBuilder") =>
        IF apkIn = Missing
        THEN artifact.err = "invalid APK file path" /\ artifact.builder = "none" /\ tmp = {}
        ELSE IF IsDir(apkIn)
        THEN /\ artifact.err = "APK file path is a directory, not a file"
             /\ artifact.builder = "none" /\ tmp = {}
        ELSE /\ artifact.builder # "none"
             /\ tmp \ {AgainExtractDir}
                   = IF artifact.builder = "cleaned" THEN {} ELSE {ExtractDir}
             /\ AgainExtractDir \in tmp <=> again # Nil

\* NewChartBuilder has been called on a path that does not exist.
C24_Witness ==
    /\ artifact # Nil /\ artifact.by = "ChartBuilder"
    /\ apkIn = Missing
    /\ artifact.err = "invalid APK file path"

\* The content of the entry of a tar archive with the name given, <<>> when
\* there is none: the bytes from its header to the next header.
RECURSIVE UpToHeader(_)
UpToHeader(bytes) ==
    IF bytes = <<>> \/ Head(bytes).k \in {"tar.reg", "tar.dir"} THEN <<>>
    ELSE <<Head(bytes)>> \o UpToHeader(Tail(bytes))

RECURSIVE FileIn(_, _)
FileIn(tarBytes, name) ==
    IF tarBytes = <<>> THEN <<>>
    ELSE IF Head(tarBytes).k = "tar.reg" /\ Head(tarBytes).v = name
    THEN UpToHeader(Tail(tarBytes))
    ELSE FileIn(Tail(tarBytes), name)

\* C25: when Chart.yaml is a patch target, the Chart.yaml of the layer
\* holds the patched values, and the metadata returned, the configuration
\* object and the version annotation of the manifest are those of the
\* patched Chart.yaml.
C25_MetadataFromPatched ==
    (Built /\ <<"Chart.yaml">> \in DOMAIN artifact.with) =>
        \A i \in TopLevelChartYamls(apkIn.data) :
            \E patched \in {FileIn(Layers(artifact.img)[1].uncompressed, apkIn.data[i].name)} :
                /\ ValuesOf(patched)
                      = ValuesOf(ApplyOps(apkIn.data[i].content,
                                          artifact.with[<<"Chart.yaml">>].ops).doc)
                /\ artifact.md = DecodeMetadata(patched)
                /\ JSONUnmarshal(RawConfigFile(artifact.img)).md = DecodeMetadata(patched)
                /\ Manifest(artifact.img).annotations[VersionKey]
                      = <<DecodeMetadata(patched).version>>

\* C26: the chart data fetch returns carry the mapping parsed from
\* <chart-root>/cg.json whenever the package has that entry, wherever it
\* stands in the stream, and no mapping only when it has none.
C26_MappingCarried ==
    (Built /\ artifact.by = "chart.Build") =>
        \A i \in TopLevelChartYamls(apkIn.data) :
            IF \E j \in DOMAIN apkIn.data :
                  apkIn.data[j].name = <<apkIn.data[i].name[1], "cg.json">>
            THEN \E j \in DOMAIN apkIn.data :
                    /\ apkIn.data[j].name = <<apkIn.data[i].name[1], "cg.json">>
                    /\ artifact.mapping = [refs |-> TokValue(apkIn.data[j].content, "images")]
            ELSE artifact.mapping = Nil

\* C27: an entry of the package that is in the layer and is no target of a
\* transform (not the Chart.yaml of the chart root, not a key of the
\* patches, not the values.yaml of a chart with a mapping built with image
\* references) has in the layer the content it has in the package; so has
\* the Chart.yaml of a subchart.
C27_OthersCopied ==
    Built =>
        \A i \in DOMAIN apkIn.data :
            (/\ apkIn.data[i].typeflag = TypeReg
             /\ apkIn.data[i].name \in EntryNames(Layers(artifact.img)[1].uncompressed)
             /\ i \notin TopLevelChartYamls(apkIn.data)
             /\ Tail(apkIn.data[i].name) \notin DOMAIN artifact.with
             /\ ~(/\ artifact.by = "chart.Build"
                  /\ Tail(apkIn.data[i].name) = <<"values.yaml">>
                  /\ artifact.mapping # Nil
                  /\ DOMAIN artifact.images # {})) =>
                FileIn(Layers(artifact.img)[1].uncompressed, apkIn.data[i].name)
                   = apkIn.data[i].content

\* The entries of a tar archive with the name given whose content is not
\* that of an entry of the package with this name.
ChangedIn(tarBytes, name, entries) ==
    {j \in DOMAIN tarBytes :
        /\ tarBytes[j].k = "tar.reg" /\ tarBytes[j].v = name
        /\ \A i \in DOMAIN entries :
              entries[i].name = name =>
                 UpToHeader(SubSeq(tarBytes, j + 1, Len(tarBytes))) # entries[i].content}

\* C28: in one build the patch registered for a path is applied at most
\* once, whatever the stream of entries: at most one entry of the layer
\* with the path of a patch has a content other than the package's.
C28_PatchAtMostOnce ==
    Built =>
        \A r \in DOMAIN artifact.with :
            \A i \in TopLevelChartYamls(apkIn.data) :
                Cardinality(ChangedIn(Layers(artifact.img)[1].uncompressed,
                                      <<apkIn.data[i].name[1]>> \o r, apkIn.data)) <= 1

\* C29: a Create or Update that returns an error diagnostic writes no
\* state; the Terraform state is what it was before the operation. (The
\* record of the last Create or Update changes in no other operation.)
C29_FailureWritesNoState ==
    [][(nops' = nops + 1 /\ last' # last /\ last'.diag # "") =>
          tfstate' = tfstate]_vars

\* The repository attribute of a resource model of either generation.
RepositoryOf(model) ==
    IF "repository" \in DOMAIN model THEN model.repository ELSE model.repo

\* C30: after a Create or Update without error the identifier of the state
\* is the repository of the state at the digest of the state, and Read
\* changes neither.
C30_IdIsRepositoryAtDigest ==
    [][/\ ((nops' = nops + 1 /\ last' # last /\ last'.diag = "") =>
             /\ tfstate' # Nil
             /\ tfstate'.model.id
                   = ResourceID(RepositoryOf(tfstate'.model), tfstate'.model.digest))
       /\ (Read =>
             /\ tfstate'.model.id = tfstate.model.id
             /\ tfstate'.model.digest = tfstate.model.digest)]_vars

====
